---- MODULE Spec2Model ----
(***************************************************************************)
(* Model of the OpenChoreo catalog synchronisation of backstage-plugins:   *)
(* OpenChoreoEntityProvider.run (the orchestrator), the entity translators *)
(* it calls, the template name derivation of CtdToTemplateConverter and    *)
(* the envelope handling of OpenChoreoApiClient.                           *)
(*                                                                         *)
(* run() is a sequential async function.  A sequential                     *)
(* `await client.x(...)` is one step: the call is issued, it settles, and  *)
(* run() goes on to its next await.  The iteration of a component that     *)
(* needs no fetch is a step of its own; nothing else runs in between.      *)
(* Only the Promise.all fan-out of the schema fetches has several calls in *)
(* flight, so there the issuing of all calls, each settlement and the      *)
(* joint resumption are separate steps.  The upstream API answers every    *)
(* call with one response, which is remembered in `upstream`: a later run  *)
(* asking the same question gets the same answer (unchanged upstream       *)
(* data).  `logs` counts the records written by run() itself.              *)
(*                                                                         *)
(* CtdToTemplateConverter is a pure function of a component type and an    *)
(* organization name: `convertArgs` holds the arguments of one             *)
(* convertCtdToTemplateEntity call and `convertResult` its result.         *)
(* Strings are strings; a JSON schema is a record that has the             *)
(* fields the schema declares, an object's properties and dependencies are *)
(* the list of its entries in insertion order, and a boolean schema and an *)
(* array where a schema may stand are wrapped in a record of their own.    *)
(*                                                                         *)
(* The application side is modelled next to it.  flattenSchema and         *)
(* createApiEntitiesFromWorkload are pure functions with their arguments   *)
(* and result in variables of their own.  The create-component action is   *)
(* one task: the scaffolder expands the step input of the template with    *)
(* the values of the form (`taskInput`), and the handler builds the        *)
(* resource it hands to /apply (`resource`).                               *)
(*                                                                         *)
(* BuildWorkflowParameters and AddonsField are React components.  Their    *)
(* useState values are variables; an event handler runs as one step with   *)
(* the state of the latest render, and the part of an async function       *)
(* after an await is a step of its own that runs with the closure of the   *)
(* render that started it, kept in `effects` and `adding`.                 *)
(***************************************************************************)
EXTENDS Integers, Sequences, FiniteSets, TLC

\* ------------------------------------------------------------------ bounds
MaxOrgs == 2
MaxProjects == 2
MaxCtds == 2
MaxRuns == 2
\* the component types handed to the converter
MaxNameLength == 3
MaxTags == 2
MaxWorkflows == 2
MaxProperties == 2
MaxConstraint == 2
MaxDepth == 2
MaxAllOf == 2
\* the endpoints of a service component handed to createApiEntitiesFromWorkload
MaxEndpoints == 2
\* the changes of the workflow selection a mounted field sees
MaxSelections == 3
\* the addons a mounted field adds
MaxAddons == 2

\* ------------------------------------------------------- program constants
ProviderName == "OpenChoreoEntityProvider"
\* `provider:${this.getProviderName()}`
ProviderLocation == "provider:" \o ProviderName
\* the namespace the provider's constructor gives the CTD converter
TemplateNamespace == "openchoreo"
\* entities built without metadata.namespace live in the catalog's default one
DefaultNamespace == "default"
DefaultOwner == "developers"
Absent == "<absent>"
Undefined == "<undefined>"

VARIABLES
  connection,     \* this.connection is set
  pc,             \* position of run(): idle, orgs, envs, dataplanes, projects,
                  \* components, component, ctds, schemas, commit, done
  run,            \* number of runs started
  runsLeft,       \* runs the scheduler will still trigger
  upstream,       \* call -> response of the upstream API (fixed once given)
  calls,          \* the upstream calls this run has issued, in order
  logs,           \* this run's log records of run(), counted by level
  organizations,  \* const organizations
  i,              \* index of `org` in the current for-of loop
  projects,       \* const projects (of organization i)
  j,              \* index of `project`
  components,     \* const components (of project j)
  k,              \* index of `component`
  ctdItems,       \* listResponse.data.items (of organization i)
  pending,        \* the promises handed to Promise.all: "inflight" or settled
  allEntities,    \* const allEntities: Entity[]
  sink,           \* the applyMutation calls the catalog connection received
  status,         \* how the last run ended: none (running), committed, failed
                  \* (run() returned after logging an error), threw
  convertArgs,    \* the arguments of a convertCtdToTemplateEntity call:
                  \* componentType and organizationName
  convertResult,  \* <<>>, or the one Template entity the call returned
  flattenArgs,    \* the schema handed to a flattenSchema call
  flattenResult,  \* <<>>, or the one field list the call returned
  apiArgs,        \* the completeComponent of a createApiEntitiesFromWorkload call
  apiResult,      \* <<>>, or the one outcome of the call
  taskInput,      \* <<>>, or the ctx.input of the one create-component task
  resource,       \* <<>>, or the one resource the action handed to /apply
  selectedWorkflowName, \* formContext.formData.workflow_name ("" for none)
  fields,         \* BuildWorkflowParameters: useState fields
  values,         \* useState values, as the list of its entries
  loading,        \* useState loading
  error,          \* useState error ("" for null)
  effects,        \* the runs of the effect: workflow, `ignore`, fetch state
  addedAddons,    \* AddonsField: useState addedAddons
  selectedAddon,  \* useState selectedAddon
  loadingSchema,  \* useState loadingSchema
  adding,         \* the handleAddAddon calls awaiting their schema
  formData,       \* what onChange reported last
  now,            \* Date.now()
  addonsError     \* AddonsField: useState error ("" for null)

vars == <<connection, pc, run, runsLeft, upstream, calls, logs, organizations,
          i, projects, j, components, k, ctdItems, pending, allEntities, sink,
          status, convertArgs, convertResult, flattenArgs, flattenResult,
          apiArgs, apiResult, taskInput, resource, selectedWorkflowName,
          fields, values, loading, error, effects, addedAddons, selectedAddon,
          loadingSchema, adding, formData, now, addonsError>>

\* the variables of a conversion, which run() does not touch
cvars == <<convertArgs, convertResult>>
\* the arguments and results of the other functions called on their own
pvars == <<flattenArgs, flattenResult, apiArgs, apiResult>>
\* the create-component task of the scaffolder
tvars == <<taskInput, resource>>
\* the state of a mounted BuildWorkflowParameters field
wvars == <<selectedWorkflowName, fields, values, loading, error, effects>>
\* the state of a mounted AddonsField
avars == <<addedAddons, selectedAddon, loadingSchema, adding, formData, now,
           addonsError>>
\* the state of the application outside the entity provider and the converter
appvars == <<pvars, tvars, wvars, avars>>
\* the state of the entity provider
rvars == <<connection, pc, run, runsLeft, upstream, calls, logs, organizations,
           i, projects, j, components, k, ctdItems, pending, allEntities, sink,
           status>>

\* ------------------------------------------------------------ upstream data
\* Resource names are unique only within their parent scope: every
\* organization has projects proj1.., every project has components comp1..
OrgRecord(n) == [name |-> "org" \o ToString(n)]
ProjectRecord(n) == [name |-> "proj" \o ToString(n)]
EnvironmentRecord == [name |-> "development", isProduction |-> FALSE]
DataplaneRecord == [name |-> "default-dataplane"]
ServiceComponent == [name |-> "comp1", type |-> "Service", status |-> "Active"]
WebAppComponent == [name |-> "comp2", type |-> "WebApplication", status |-> "Active"]
CtdItem(n) == [name |-> "ctd" \o ToString(n), workloadType |-> "deployment"]
RestEndpoint == [name |-> "http", type |-> "REST", port |-> "8080"]
\* an endpoint record without `type` and `port`
MalformedEndpoint == [name |-> "http", type |-> Undefined, port |-> Undefined]
CompleteComponent(c, eps) ==
  [name |-> c.name, type |-> c.type, status |-> c.status, endpoints |-> eps]

\* The three shapes of an answer: the HTTP call or response.json() rejects, the
\* envelope says success=false, the envelope says success=true and carries data.
Rejected == [rejected |-> TRUE, success |-> FALSE, data |-> <<>>]
Unsuccessful == [rejected |-> FALSE, success |-> FALSE, data |-> <<>>]
Ok(d) == [rejected |-> FALSE, success |-> TRUE, data |-> d]

Call(op, org, project, name) ==
  [op |-> op, org |-> org, project |-> project, name |-> name]

OrgsCall == Call("getAllOrganizations", Absent, Absent, Absent)
EnvsCall(org) == Call("getAllEnvironments", org, Absent, Absent)
DataplanesCall(org) == Call("getAllDataplanes", org, Absent, Absent)
ProjectsCall(org) == Call("getAllProjects", org, Absent, Absent)
ComponentsCall(org, project) == Call("getAllComponents", org, project, Absent)
ComponentCall(org, project, name) == Call("getComponent", org, project, name)
ListCtdsCall(org) == Call("listCTDs", org, Absent, Absent)
SchemaCall(org, ctd) == Call("getCTDSchema", org, Absent, ctd)

\* The answers the upstream API may give to a call.
Responses(call) ==
  CASE call.op = "getAllOrganizations" ->
         {Rejected, Unsuccessful}
           \cup {Ok([n \in 1..m |-> OrgRecord(n)]) : m \in 0..MaxOrgs}
    [] call.op = "getAllEnvironments" ->
         {Unsuccessful, Ok(<<EnvironmentRecord>>)}
    [] call.op = "getAllDataplanes" ->
         {Unsuccessful, Ok(<<DataplaneRecord>>)}
    [] call.op = "getAllProjects" ->
         {Unsuccessful} \cup {Ok([n \in 1..m |-> ProjectRecord(n)]) : m \in {0, MaxProjects}}
    [] call.op = "getAllComponents" ->
         {Unsuccessful, Ok(<<ServiceComponent, WebAppComponent>>)}
    [] call.op = "getComponent" ->
         {Unsuccessful,
          Ok(CompleteComponent(ServiceComponent, <<RestEndpoint>>)),
          Ok(CompleteComponent(ServiceComponent, <<MalformedEndpoint>>))}
    [] call.op = "listCTDs" ->
         {Unsuccessful} \cup {Ok([n \in 1..m |-> CtdItem(n)]) : m \in {MaxCtds}}
    [] call.op = "getCTDSchema" ->
         {Rejected, Ok(<<"schema-of-" \o call.name>>)}

\* The answer to a call: the remembered one, or any possible one the first time.
Answers(call) ==
  IF call \in DOMAIN upstream THEN {upstream[call]} ELSE Responses(call)

Remember(call, r) ==
  IF call \in DOMAIN upstream THEN upstream ELSE upstream @@ (call :> r)

\* ------------------------------------------------------ OpenChoreoApiClient
\* Every client method awaits the call and response.json(), throws on an
\* envelope with success=false and rethrows whatever it catches.
ClientThrows(r) == r.rejected \/ ~r.success

\* getAllOrganizations, getAllProjects, ...: return apiResponse.data.items
ClientItems(r) == r.data

\* getCTDWithSchema: the list item's metadata joined with the fetched schema
getCTDWithSchema(item, r) ==
  [metadata |-> item, spec |-> [inputParametersSchema |-> r.data]]

\* ------------------------------------------------------- entity translators
\* String.prototype.toLowerCase on the type and status strings that occur
LowerCase(s) ==
  CASE s = "Service" -> "service"
    [] s = "WebApplication" -> "webapplication"
    [] s = "Active" -> "active"
    [] s = "REST" -> "rest"
    [] OTHER -> s

\* The fields of a catalog entity that the translators set from their inputs.
Entity(kind, namespace, name) ==
  [kind |-> kind, namespace |-> namespace, name |-> name,
   managedBy |-> ProviderLocation, organization |-> Absent, project |-> Absent,
   component |-> Absent, owner |-> DefaultOwner, domain |-> Absent,
   system |-> Absent, type |-> Absent, providesApis |-> <<>>]

translateOrganizationToDomain(organization) ==
  [Entity("Domain", DefaultNamespace, organization.name)
     EXCEPT !.organization = organization.name]

translateProjectToEntity(project, orgName) ==
  [Entity("System", DefaultNamespace, project.name)
     EXCEPT !.organization = orgName, !.project = project.name,
            !.domain = orgName]

translateEnvironmentToEntity(environment, orgName) ==
  [Entity("Environment", DefaultNamespace, environment.name)
     EXCEPT !.organization = orgName, !.owner = "guests", !.domain = orgName,
            !.type = IF environment.isProduction THEN "production"
                     ELSE "non-production"]

translateDataplaneToEntity(dataplane, orgName) ==
  [Entity("Dataplane", DefaultNamespace, dataplane.name)
     EXCEPT !.organization = orgName, !.owner = "guests", !.domain = orgName,
            !.type = "kubernetes"]

translateComponentToEntity(component, orgName, projectName, providesApis) ==
  [Entity("Component", DefaultNamespace, component.name)
     EXCEPT !.organization = orgName, !.project = projectName,
            !.component = component.name, !.system = projectName,
            !.type = IF component.type = "WebApplication" THEN "website"
                     ELSE LowerCase(component.type),
            !.providesApis = providesApis]

\* `${completeComponent.name}-${endpointName}`
ApiName(componentName, endpointName) == componentName \o "-" \o endpointName

translateServiceComponentToEntity(completeComponent, orgName, projectName) ==
  translateComponentToEntity(
    completeComponent, orgName, projectName,
    [n \in 1..Len(completeComponent.endpoints) |->
       ApiName(completeComponent.name, completeComponent.endpoints[n].name)])

\* mapWorkloadEndpointTypeToBackstageType without the case 'Websocket'
mapWorkloadEndpointTypeWithoutWebsocket(workloadType) ==
  CASE workloadType \in {"REST", "HTTP"} -> "openapi"
    [] workloadType = "GraphQL" -> "graphql"
    [] workloadType = "gRPC" -> "grpc"
    [] workloadType \in {"TCP", "UDP"} -> "openapi"
    [] OTHER -> "openapi"

mapWorkloadEndpointTypeToBackstageType(workloadType) ==
  CASE workloadType \in {"REST", "HTTP"} -> "openapi"
    [] workloadType = "GraphQL" -> "graphql"
    [] workloadType = "gRPC" -> "grpc"
    [] workloadType = "Websocket" -> "asyncapi"
    [] workloadType \in {"TCP", "UDP"} -> "openapi"
    [] OTHER -> "openapi"

\* endpoint.type.toLowerCase() and endpoint.port.toString() throw a TypeError
\* on an endpoint record that lacks the field
createApiEntitiesThrows(completeComponent) ==
  \E n \in 1..Len(completeComponent.endpoints) :
    \/ completeComponent.endpoints[n].type = Undefined
    \/ completeComponent.endpoints[n].port = Undefined

createApiEntitiesFromWorkload(completeComponent, orgName, projectName) ==
  [n \in 1..Len(completeComponent.endpoints) |->
     [Entity("API", DefaultNamespace,
             ApiName(completeComponent.name, completeComponent.endpoints[n].name))
        EXCEPT !.organization = orgName, !.project = projectName,
               !.component = completeComponent.name, !.system = projectName,
               !.type = mapWorkloadEndpointTypeToBackstageType(
                          completeComponent.endpoints[n].type)]]

\* --------------------------------------------------- CtdToTemplateConverter
generateTemplateName(componentTypeName) ==
  "template-" \o TemplateNamespace \o "-" \o componentTypeName

\* The template entity with the two managed-by annotations run() adds to it.
\* The organization is the default of the organization_name parameter.
convertCtdToTemplateEntity(componentType, organizationName) ==
  [Entity("Template", TemplateNamespace,
          generateTemplateName(componentType.metadata.name))
     EXCEPT !.organization = organizationName,
            !.component = componentType.metadata.name,
            !.type = "Component Type"]

\* ------------------------------------------------- OpenChoreoEntityProvider
Logged(level) == [logs EXCEPT ![level] = @ + 1]

OrgName == organizations[i].name
ProjectName == projects[j].name

\* Where run() continues after the body of a loop iteration: the next
\* iteration, or the statement after the loop.
Position(p, oi, pj, ck) == [pc |-> p, i |-> oi, j |-> pj, k |-> ck]

AfterEnvironments ==
  IF i < Len(organizations) THEN Position("envs", i + 1, 1, 1)
  ELSE Position("dataplanes", 1, 1, 1)

AfterDataplanes ==
  IF i < Len(organizations) THEN Position("dataplanes", i + 1, 1, 1)
  ELSE Position("projects", 1, 1, 1)

AfterOrgProjects ==
  IF i < Len(organizations) THEN Position("projects", i + 1, 1, 1)
  ELSE Position("ctds", 1, 1, 1)

AfterProject(ps) ==
  IF j < Len(ps) THEN Position("components", i, j + 1, 1)
  ELSE AfterOrgProjects

AfterComponent ==
  IF k < Len(components) THEN Position("component", i, j, k + 1)
  ELSE AfterProject(projects)

AfterOrgCtds ==
  IF i < Len(organizations) THEN Position("ctds", i + 1, 1, 1)
  ELSE Position("commit", 1, 1, 1)

Goto(pos) == pc' = pos.pc /\ i' = pos.i /\ j' = pos.j /\ k' = pos.k

\* connect(): keeps the connection and hands run() to the task runner
Connect ==
  /\ ~connection
  /\ connection' = TRUE
  /\ UNCHANGED <<cvars, appvars, pc, run, runsLeft, upstream, calls, logs, organizations, i,
                 projects, j, components, k, ctdItems, pending, allEntities,
                 sink, status>>

\* The task runner invokes run(); the connection is set, so run() does not
\* throw 'Connection not initialized'.
StartRun ==
  /\ connection
  /\ pc \in {"idle", "done"}
  /\ runsLeft > 0
  /\ runsLeft' = runsLeft - 1
  /\ run' = run + 1
  /\ pc' = "orgs"
  /\ calls' = <<>>
  /\ logs' = [warn |-> 0, error |-> 0]
  /\ organizations' = <<>> /\ projects' = <<>> /\ components' = <<>>
  /\ ctdItems' = <<>> /\ pending' = <<>> /\ allEntities' = <<>>
  /\ i' = 1 /\ j' = 1 /\ k' = 1
  /\ status' = "none"
  /\ UNCHANGED <<cvars, appvars, connection, upstream, sink>>

\* FetchOrganizationsFail treating the failure as an empty organization list,
\* like the scope fetches do: the run goes on to commit nothing
FetchOrganizationsFailCommitsEmpty ==
  /\ pc = "orgs"
  /\ \E r \in Answers(OrgsCall) :
       /\ ClientThrows(r)
       /\ upstream' = Remember(OrgsCall, r)
  /\ calls' = Append(calls, OrgsCall)
  /\ logs' = Logged("warn")
  /\ organizations' = <<>>
  /\ allEntities' = <<>>
  /\ Goto(Position("commit", 1, 1, 1))
  /\ UNCHANGED <<cvars, appvars, connection, run, runsLeft, projects, components, ctdItems,
                 pending, sink, status>>

\* await getAllOrganizations() throws: the outer catch logs an error
FetchOrganizationsFail ==
  /\ pc = "orgs"
  /\ \E r \in Answers(OrgsCall) :
       /\ ClientThrows(r)
       /\ upstream' = Remember(OrgsCall, r)
  /\ calls' = Append(calls, OrgsCall)
  /\ logs' = Logged("error")
  /\ status' = "failed"
  /\ pc' = "done"
  /\ UNCHANGED <<cvars, appvars, connection, run, runsLeft, organizations, i, projects, j,
                 components, k, ctdItems, pending, allEntities, sink>>

\* getAllOrganizations() returns: allEntities starts with the Domain entities
FetchOrganizations ==
  /\ pc = "orgs"
  /\ \E r \in Answers(OrgsCall) :
       /\ ~ClientThrows(r)
       /\ upstream' = Remember(OrgsCall, r)
       /\ organizations' = ClientItems(r)
       /\ allEntities' = [n \in 1..Len(ClientItems(r)) |->
                            translateOrganizationToDomain(ClientItems(r)[n])]
       /\ Goto(IF Len(ClientItems(r)) = 0 THEN Position("commit", 1, 1, 1)
               ELSE Position("envs", 1, 1, 1))
  /\ calls' = Append(calls, OrgsCall)
  /\ UNCHANGED <<cvars, appvars, connection, run, runsLeft, logs, projects, components,
                 ctdItems, pending, sink, status>>

FetchEnvironmentsFail ==
  /\ pc = "envs"
  /\ \E r \in Answers(EnvsCall(OrgName)) :
       /\ ClientThrows(r)
       /\ upstream' = Remember(EnvsCall(OrgName), r)
  /\ calls' = Append(calls, EnvsCall(OrgName))
  /\ logs' = Logged("warn")
  /\ Goto(AfterEnvironments)
  /\ UNCHANGED <<cvars, appvars, connection, run, runsLeft, organizations, projects,
                 components, ctdItems, pending, allEntities, sink, status>>

FetchEnvironments ==
  /\ pc = "envs"
  /\ \E r \in Answers(EnvsCall(OrgName)) :
       /\ ~ClientThrows(r)
       /\ upstream' = Remember(EnvsCall(OrgName), r)
       /\ allEntities' = allEntities \o
            [n \in 1..Len(ClientItems(r)) |->
               translateEnvironmentToEntity(ClientItems(r)[n], OrgName)]
  /\ calls' = Append(calls, EnvsCall(OrgName))
  /\ Goto(AfterEnvironments)
  /\ UNCHANGED <<cvars, appvars, connection, run, runsLeft, logs, organizations, projects,
                 components, ctdItems, pending, sink, status>>

FetchDataplanesFail ==
  /\ pc = "dataplanes"
  /\ \E r \in Answers(DataplanesCall(OrgName)) :
       /\ ClientThrows(r)
       /\ upstream' = Remember(DataplanesCall(OrgName), r)
  /\ calls' = Append(calls, DataplanesCall(OrgName))
  /\ logs' = Logged("warn")
  /\ Goto(AfterDataplanes)
  /\ UNCHANGED <<cvars, appvars, connection, run, runsLeft, organizations, projects,
                 components, ctdItems, pending, allEntities, sink, status>>

\* FetchDataplanes assigning the dataplane entities to allEntities instead of
\* pushing them
FetchDataplanesOverwrites ==
  /\ pc = "dataplanes"
  /\ \E r \in Answers(DataplanesCall(OrgName)) :
       /\ ~ClientThrows(r)
       /\ upstream' = Remember(DataplanesCall(OrgName), r)
       /\ allEntities' =
            [n \in 1..Len(ClientItems(r)) |->
               translateDataplaneToEntity(ClientItems(r)[n], OrgName)]
  /\ calls' = Append(calls, DataplanesCall(OrgName))
  /\ Goto(AfterDataplanes)
  /\ UNCHANGED <<cvars, appvars, connection, run, runsLeft, logs, organizations, projects,
                 components, ctdItems, pending, sink, status>>

FetchDataplanes ==
  /\ pc = "dataplanes"
  /\ \E r \in Answers(DataplanesCall(OrgName)) :
       /\ ~ClientThrows(r)
       /\ upstream' = Remember(DataplanesCall(OrgName), r)
       /\ allEntities' = allEntities \o
            [n \in 1..Len(ClientItems(r)) |->
               translateDataplaneToEntity(ClientItems(r)[n], OrgName)]
  /\ calls' = Append(calls, DataplanesCall(OrgName))
  /\ Goto(AfterDataplanes)
  /\ UNCHANGED <<cvars, appvars, connection, run, runsLeft, logs, organizations, projects,
                 components, ctdItems, pending, sink, status>>

\* FetchProjectsFail without the try/catch of the organization's iteration: the
\* exception reaches the outer catch of run()
FetchProjectsFailAborts ==
  /\ pc = "projects"
  /\ \E r \in Answers(ProjectsCall(OrgName)) :
       /\ ClientThrows(r)
       /\ upstream' = Remember(ProjectsCall(OrgName), r)
  /\ calls' = Append(calls, ProjectsCall(OrgName))
  /\ logs' = Logged("error")
  /\ status' = "failed"
  /\ pc' = "done"
  /\ UNCHANGED <<cvars, appvars, connection, run, runsLeft, organizations, i, projects, j,
                 components, k, ctdItems, pending, allEntities, sink>>

\* getAllProjects(org) throws: the catch of the organization's iteration warns
FetchProjectsFail ==
  /\ pc = "projects"
  /\ \E r \in Answers(ProjectsCall(OrgName)) :
       /\ ClientThrows(r)
       /\ upstream' = Remember(ProjectsCall(OrgName), r)
  /\ calls' = Append(calls, ProjectsCall(OrgName))
  /\ logs' = Logged("warn")
  /\ Goto(AfterOrgProjects)
  /\ UNCHANGED <<cvars, appvars, connection, run, runsLeft, organizations, projects,
                 components, ctdItems, pending, allEntities, sink, status>>

\* getAllProjects(org) returns: the System entities are pushed
FetchProjects ==
  /\ pc = "projects"
  /\ \E r \in Answers(ProjectsCall(OrgName)) :
       /\ ~ClientThrows(r)
       /\ upstream' = Remember(ProjectsCall(OrgName), r)
       /\ projects' = ClientItems(r)
       /\ allEntities' = allEntities \o
            [n \in 1..Len(ClientItems(r)) |->
               translateProjectToEntity(ClientItems(r)[n], OrgName)]
       /\ Goto(IF Len(ClientItems(r)) = 0 THEN AfterOrgProjects
               ELSE Position("components", i, 1, 1))
  /\ calls' = Append(calls, ProjectsCall(OrgName))
  /\ UNCHANGED <<cvars, appvars, connection, run, runsLeft, logs, organizations, components,
                 ctdItems, pending, sink, status>>

\* FetchComponentsFail with one retry of the failed call before giving up
FetchComponentsFailRetries ==
  /\ pc = "components"
  /\ \E r \in Answers(ComponentsCall(OrgName, ProjectName)) :
       /\ ClientThrows(r)
       /\ upstream' = Remember(ComponentsCall(OrgName, ProjectName), r)
  /\ calls' = calls \o <<ComponentsCall(OrgName, ProjectName),
                         ComponentsCall(OrgName, ProjectName)>>
  /\ logs' = Logged("warn")
  /\ Goto(AfterProject(projects))
  /\ UNCHANGED <<cvars, appvars, connection, run, runsLeft, organizations, projects,
                 components, ctdItems, pending, allEntities, sink, status>>

\* getAllComponents(org, project) throws: the catch of the project's iteration
\* warns
FetchComponentsFail ==
  /\ pc = "components"
  /\ \E r \in Answers(ComponentsCall(OrgName, ProjectName)) :
       /\ ClientThrows(r)
       /\ upstream' = Remember(ComponentsCall(OrgName, ProjectName), r)
  /\ calls' = Append(calls, ComponentsCall(OrgName, ProjectName))
  /\ logs' = Logged("warn")
  /\ Goto(AfterProject(projects))
  /\ UNCHANGED <<cvars, appvars, connection, run, runsLeft, organizations, projects,
                 components, ctdItems, pending, allEntities, sink, status>>

FetchComponents ==
  /\ pc = "components"
  /\ \E r \in Answers(ComponentsCall(OrgName, ProjectName)) :
       /\ ~ClientThrows(r)
       /\ upstream' = Remember(ComponentsCall(OrgName, ProjectName), r)
       /\ components' = ClientItems(r)
       /\ Goto(IF Len(ClientItems(r)) = 0 THEN AfterProject(projects)
               ELSE Position("component", i, j, 1))
  /\ calls' = Append(calls, ComponentsCall(OrgName, ProjectName))
  /\ UNCHANGED <<cvars, appvars, connection, run, runsLeft, logs, organizations, projects,
                 ctdItems, pending, allEntities, sink, status>>

\* a component whose type is not 'Service': the basic entity is pushed
TranslateComponent ==
  /\ pc = "component"
  /\ components[k].type # "Service"
  /\ allEntities' = Append(allEntities,
       translateComponentToEntity(components[k], OrgName, ProjectName, <<>>))
  /\ Goto(AfterComponent)
  /\ UNCHANGED <<cvars, appvars, connection, run, runsLeft, upstream, calls, logs,
                 organizations, projects, components, ctdItems, pending, sink,
                 status>>

\* The entities the try block of a Service component has pushed when it ends:
\* the enriched Component entity and, unless creating them throws, its APIs.
ServiceEntities(completeComponent, orgName, projectName) ==
  <<translateServiceComponentToEntity(completeComponent, orgName, projectName)>>
    \o (IF createApiEntitiesThrows(completeComponent) THEN <<>>
        ELSE createApiEntitiesFromWorkload(completeComponent, orgName, projectName))

\* a Service component, getComponent(...) returns
FetchServiceComponent ==
  /\ pc = "component"
  /\ components[k].type = "Service"
  /\ \E r \in Answers(ComponentCall(OrgName, ProjectName, components[k].name)) :
       /\ ~ClientThrows(r)
       /\ upstream' = Remember(ComponentCall(OrgName, ProjectName, components[k].name), r)
       /\ IF createApiEntitiesThrows(r.data)
          THEN \* the catch warns and pushes the basic entity as well
               /\ logs' = Logged("warn")
               /\ allEntities' =
                    Append(allEntities \o ServiceEntities(r.data, OrgName, ProjectName),
                           translateComponentToEntity(components[k], OrgName,
                                                      ProjectName, <<>>))
          ELSE /\ logs' = logs
               /\ allEntities' =
                    allEntities \o ServiceEntities(r.data, OrgName, ProjectName)
  /\ calls' = Append(calls, ComponentCall(OrgName, ProjectName, components[k].name))
  /\ Goto(AfterComponent)
  /\ UNCHANGED <<cvars, appvars, connection, run, runsLeft, organizations, projects,
                 components, ctdItems, pending, sink, status>>

\* FetchServiceComponentFail without the fallback: the component is dropped
FetchServiceComponentFailDrops ==
  /\ pc = "component"
  /\ components[k].type = "Service"
  /\ \E r \in Answers(ComponentCall(OrgName, ProjectName, components[k].name)) :
       /\ ClientThrows(r)
       /\ upstream' = Remember(ComponentCall(OrgName, ProjectName, components[k].name), r)
  /\ calls' = Append(calls, ComponentCall(OrgName, ProjectName, components[k].name))
  /\ logs' = Logged("warn")
  /\ Goto(AfterComponent)
  /\ UNCHANGED <<cvars, appvars, connection, run, runsLeft, organizations, projects,
                 components, ctdItems, pending, allEntities, sink, status>>

\* a Service component, getComponent(...) throws: fallback to the basic entity
FetchServiceComponentFail ==
  /\ pc = "component"
  /\ components[k].type = "Service"
  /\ \E r \in Answers(ComponentCall(OrgName, ProjectName, components[k].name)) :
       /\ ClientThrows(r)
       /\ upstream' = Remember(ComponentCall(OrgName, ProjectName, components[k].name), r)
  /\ calls' = Append(calls, ComponentCall(OrgName, ProjectName, components[k].name))
  /\ logs' = Logged("warn")
  /\ allEntities' = Append(allEntities,
       translateComponentToEntity(components[k], OrgName, ProjectName, <<>>))
  /\ Goto(AfterComponent)
  /\ UNCHANGED <<cvars, appvars, connection, run, runsLeft, organizations, projects,
                 components, ctdItems, pending, sink, status>>

\* ListCtdsFail fetching the schema of a component type it knows by name
\* although the list call failed, without awaiting it
ListCtdsFailFetchesKnownType ==
  /\ pc = "ctds"
  /\ \E r \in Answers(ListCtdsCall(OrgName)) :
       /\ ClientThrows(r)
       /\ upstream' = Remember(ListCtdsCall(OrgName), r)
  /\ calls' = calls \o <<ListCtdsCall(OrgName),
                         SchemaCall(OrgName, CtdItem(1).name)>>
  /\ logs' = Logged("warn")
  /\ Goto(AfterOrgCtds)
  /\ UNCHANGED <<cvars, appvars, connection, run, runsLeft, organizations, projects,
                 components, ctdItems, pending, allEntities, sink, status>>

\* listCTDs(org) throws: the catch of the organization's iteration warns
ListCtdsFail ==
  /\ pc = "ctds"
  /\ \E r \in Answers(ListCtdsCall(OrgName)) :
       /\ ClientThrows(r)
       /\ upstream' = Remember(ListCtdsCall(OrgName), r)
  /\ calls' = Append(calls, ListCtdsCall(OrgName))
  /\ logs' = Logged("warn")
  /\ Goto(AfterOrgCtds)
  /\ UNCHANGED <<cvars, appvars, connection, run, runsLeft, organizations, projects,
                 components, ctdItems, pending, allEntities, sink, status>>

\* listCTDs(org) returns: items.map(async ...) issues one schema fetch per list
\* item, in list order, and run() awaits Promise.all of the promises
ListCtds ==
  /\ pc = "ctds"
  /\ \E r \in Answers(ListCtdsCall(OrgName)) :
       /\ ~ClientThrows(r)
       /\ upstream' = Remember(ListCtdsCall(OrgName), r)
       /\ ctdItems' = r.data
       /\ pending' = [n \in 1..Len(r.data) |-> [settled |-> FALSE, result |-> <<>>]]
       /\ calls' = Append(calls, ListCtdsCall(OrgName))
                     \o [n \in 1..Len(r.data) |-> SchemaCall(OrgName, r.data[n].name)]
  /\ pc' = "schemas"
  /\ UNCHANGED <<cvars, appvars, connection, run, runsLeft, logs, organizations, i, projects,
                 j, components, k, allEntities, sink, status>>

\* SchemaFetched with a callback that pushes the Template itself as soon as
\* its fetch fulfils
SchemaFetchedPushes ==
  /\ pc = "schemas"
  /\ \E n \in DOMAIN pending :
       /\ ~pending[n].settled
       /\ \E r \in Answers(SchemaCall(OrgName, ctdItems[n].name)) :
            /\ ~ClientThrows(r)
            /\ upstream' = Remember(SchemaCall(OrgName, ctdItems[n].name), r)
            /\ pending' = [pending EXCEPT ![n] = [settled |-> TRUE, result |-> <<>>]]
            /\ allEntities' = Append(allEntities,
                 convertCtdToTemplateEntity(getCTDWithSchema(ctdItems[n], r), OrgName))
  /\ UNCHANGED <<cvars, appvars, connection, pc, run, runsLeft, calls, logs, organizations, i,
                 projects, j, components, k, ctdItems, sink, status>>

\* one getCTDWithSchema promise fulfils: the callback returns the full CTD
SchemaFetched ==
  /\ pc = "schemas"
  /\ \E n \in DOMAIN pending :
       /\ ~pending[n].settled
       /\ \E r \in Answers(SchemaCall(OrgName, ctdItems[n].name)) :
            /\ ~ClientThrows(r)
            /\ upstream' = Remember(SchemaCall(OrgName, ctdItems[n].name), r)
            /\ pending' = [pending EXCEPT ![n] =
                 [settled |-> TRUE, result |-> <<getCTDWithSchema(ctdItems[n], r)>>]]
  /\ UNCHANGED <<cvars, appvars, connection, pc, run, runsLeft, calls, logs, organizations, i,
                 projects, j, components, k, ctdItems, allEntities, sink, status>>

\* SchemaFetchFail without the try/catch of the map callback: Promise.all
\* rejects with the first rejection and the catch of the organization's
\* iteration drops the batch
SchemaFetchFailRejectsBatch ==
  /\ pc = "schemas"
  /\ \E n \in DOMAIN pending :
       /\ ~pending[n].settled
       /\ \E r \in Answers(SchemaCall(OrgName, ctdItems[n].name)) :
            /\ ClientThrows(r)
            /\ upstream' = Remember(SchemaCall(OrgName, ctdItems[n].name), r)
  /\ pending' = <<>>
  /\ logs' = Logged("warn")
  /\ Goto(AfterOrgCtds)
  /\ UNCHANGED <<cvars, appvars, connection, run, runsLeft, calls, organizations, projects,
                 components, ctdItems, allEntities, sink, status>>

\* one getCTDWithSchema promise rejects: the callback warns and returns null
SchemaFetchFail ==
  /\ pc = "schemas"
  /\ \E n \in DOMAIN pending :
       /\ ~pending[n].settled
       /\ \E r \in Answers(SchemaCall(OrgName, ctdItems[n].name)) :
            /\ ClientThrows(r)
            /\ upstream' = Remember(SchemaCall(OrgName, ctdItems[n].name), r)
            /\ pending' = [pending EXCEPT ![n] = [settled |-> TRUE, result |-> <<>>]]
  /\ logs' = Logged("warn")
  /\ UNCHANGED <<cvars, appvars, connection, pc, run, runsLeft, calls, organizations, i,
                 projects, j, components, k, ctdItems, allEntities, sink, status>>

\* AllSettled as Promise.race would have it: the first settlement resumes run()
AnySettled(p) == p = <<>> \/ \E n \in DOMAIN p : p[n].settled

\* Promise.all resolves when every promise has settled (none of them rejects:
\* each callback catches)
AllSettled(p) == \A n \in DOMAIN p : p[n].settled

\* ctdsWithSchemas.filter(ctd => ctd !== null): the results in list order
RECURSIVE validCTDs(_)
validCTDs(p) ==
  IF Len(p) = 0 THEN <<>> ELSE p[1].result \o validCTDs(Tail(p))

templateEntities(p, orgName) ==
  [n \in 1..Len(validCTDs(p)) |->
     convertCtdToTemplateEntity(validCTDs(p)[n], orgName)]

\* JoinSchemas with map callbacks that never settle when their fetch rejects:
\* Promise.all resolves only if every schema fetch fulfilled
JoinSchemasAwaitsFulfilment ==
  /\ pc = "schemas"
  /\ \A n \in DOMAIN pending : pending[n].settled /\ pending[n].result # <<>>
  /\ allEntities' = allEntities \o templateEntities(pending, OrgName)
  /\ pending' = <<>>
  /\ Goto(AfterOrgCtds)
  /\ UNCHANGED <<cvars, appvars, connection, run, runsLeft, upstream, calls, logs,
                 organizations, projects, components, ctdItems, sink, status>>

\* run() resumes after Promise.all: the organization's templates are pushed
JoinSchemas ==
  /\ pc = "schemas"
  /\ AllSettled(pending)
  /\ allEntities' = allEntities \o templateEntities(pending, OrgName)
  /\ pending' = <<>>
  /\ Goto(AfterOrgCtds)
  /\ UNCHANGED <<cvars, appvars, connection, run, runsLeft, upstream, calls, logs,
                 organizations, projects, components, ctdItems, sink, status>>

\* Mutation with a location key derived from each entity's organization
MutationKeyedByOrganization(entities) ==
  [type |-> "full",
   entities |-> [n \in 1..Len(entities) |->
                   [entity |-> entities[n],
                    locationKey |-> "provider:" \o entities[n].organization]]]

\* the argument of connection.applyMutation
Mutation(entities) ==
  [type |-> "full",
   entities |-> [n \in 1..Len(entities) |->
                   [entity |-> entities[n], locationKey |-> ProviderLocation]]]

\* what the catalog connection saw of one applyMutation call
Applied(mutation, outcome) ==
  [run |-> run, mutation |-> mutation, outcome |-> outcome]

\* applyMutation resolves: run() logs the counts and returns
CommitResolves ==
  /\ pc = "commit"
  /\ sink' = Append(sink, Applied(Mutation(allEntities), "resolved"))
  /\ status' = "committed"
  /\ pc' = "done"
  /\ UNCHANGED <<cvars, appvars, connection, run, runsLeft, upstream, calls, logs,
                 organizations, i, projects, j, components, k, ctdItems,
                 pending, allEntities>>

\* CommitRejects with a catch that commits the Domain entities alone after the
\* full commit was rejected
CommitRejectsRetriesPartially ==
  /\ pc = "commit"
  /\ sink' = sink \o
       <<[run |-> run, outcome |-> "rejected",
          mutation |-> [type |-> "full",
                        entities |-> [n \in 1..Len(allEntities) |->
                           [entity |-> allEntities[n],
                            locationKey |-> ProviderLocation]]]],
         [run |-> run, outcome |-> "resolved",
          mutation |-> [type |-> "full",
                        entities |-> [n \in 1..Len(organizations) |->
                           [entity |-> allEntities[n],
                            locationKey |-> ProviderLocation]]]]>>
  /\ logs' = Logged("error")
  /\ status' = "failed"
  /\ pc' = "done"
  /\ UNCHANGED <<cvars, appvars, connection, run, runsLeft, upstream, calls, organizations, i,
                 projects, j, components, k, ctdItems, pending, allEntities>>

\* applyMutation rejects: the outer catch logs an error and run() returns
CommitRejects ==
  /\ pc = "commit"
  /\ sink' = Append(sink, Applied(Mutation(allEntities), "rejected"))
  /\ logs' = Logged("error")
  /\ status' = "failed"
  /\ pc' = "done"
  /\ UNCHANGED <<cvars, appvars, connection, run, runsLeft, upstream, calls, organizations, i,
                 projects, j, components, k, ctdItems, pending, allEntities>>

\* ----------------------- CtdToTemplateConverter: tags, parameters, schemas
\* --- the string methods the converter calls
Upper == "ABCDEFGHIJKLMNOPQRSTUVWXYZ"
Lower == "abcdefghijklmnopqrstuvwxyz"

CharAt(s, n) == SubSeq(s, n, n)

\* the character of `to` at the place c has in `from`, or c
Translate(c, from, to) ==
  IF \E n \in 1..Len(from) : CharAt(from, n) = c
  THEN CharAt(to, CHOOSE n \in 1..Len(from) : CharAt(from, n) = c)
  ELSE c

RECURSIVE MapChars(_, _, _)
MapChars(s, from, to) ==
  IF Len(s) = 0 THEN ""
  ELSE Translate(Head(s), from, to) \o MapChars(Tail(s), from, to)

toLowerCase(s) == MapChars(s, Upper, Lower)
toUpperCase(s) == MapChars(s, Lower, Upper)

\* String.prototype.split with a separator of one character
RECURSIVE split(_, _)
split(s, separator) ==
  IF Len(s) = 0 THEN <<"">>
  ELSE LET rest == split(Tail(s), separator)
       IN IF Head(s) = separator THEN <<"">> \o rest
          ELSE <<Head(s) \o Head(rest)>> \o Tail(rest)

RECURSIVE join(_, _)
join(list, separator) ==
  IF Len(list) = 0 THEN ""
  ELSE IF Len(list) = 1 THEN list[1]
  ELSE list[1] \o separator \o join(Tail(list), separator)

IsWhiteSpace(c) == c \in {" ", "\t", "\n"}

RECURSIVE trimStart(_)
trimStart(s) ==
  IF Len(s) > 0 /\ IsWhiteSpace(Head(s)) THEN trimStart(Tail(s)) ELSE s

RECURSIVE trimEnd(_)
trimEnd(s) ==
  IF Len(s) > 0 /\ IsWhiteSpace(CharAt(s, Len(s)))
  THEN trimEnd(SubSeq(s, 1, Len(s) - 1)) ELSE s

trim(s) == trimEnd(trimStart(s))

\* Array.prototype.includes
includes(list, x) == \E n \in DOMAIN list : list[n] = x

\* --- the shapes of the data
\* A ComponentType.  An optional string that is missing is "", an optional
\* list that is missing is <<>>: the converter reads them with `||` or a
\* truthiness test, which treat the two alike.
ComponentType(name, displayName, workloadType, tags, allowedWorkflows, schema) ==
  [metadata |-> [name |-> name, displayName |-> displayName,
                 workloadType |-> workloadType, tags |-> tags,
                 allowedWorkflows |-> allowedWorkflows],
   spec |-> [inputParametersSchema |-> schema]]

\* one [key, value] pair of Object.entries
Entry(key, value) == [key |-> key, value |-> value]

\* a JSONSchema7Definition that is the boolean b
BooleanSchema(b) == [jsBoolean |-> b]
\* an array where a schema may stand: tuple items, array-form dependency
JsArray(list) == [array |-> list]

\* schema.f !== undefined
Has(schema, f) == f \in DOMAIN schema
\* typeof def === 'boolean'
IsBoolean(def) == Has(def, "jsBoolean")
\* Array.isArray(def)
IsArray(def) == Has(def, "array")
\* the truthiness of a schema definition: only the boolean false is falsy
Truthy(def) == ~(IsBoolean(def) /\ ~def.jsBoolean)

\* --- metadata
formatTitle(name) ==
  join([n \in DOMAIN split(name, "-") |->
          LET word == split(name, "-")[n]
          IN IF Len(word) = 0 THEN ""
             ELSE toUpperCase(Head(word)) \o Tail(word)],
       " ")

\* componentType.metadata.displayName || this.formatTitle(...)
templateTitle(componentType) ==
  IF componentType.metadata.displayName # ""
  THEN componentType.metadata.displayName
  ELSE formatTitle(componentType.metadata.name)

inferTagsFromCtd(componentType) ==
  LET nameParts == SelectSeq(split(componentType.metadata.name, "-"),
                             LAMBDA part : Len(part) > 0)
      workloadType == toLowerCase(componentType.metadata.workloadType)
  IN IF componentType.metadata.workloadType # ""
        /\ ~includes(nameParts, workloadType)
     THEN Append(nameParts, workloadType)
     ELSE nameParts

\* const tags = [...].filter(tag => tag && tag.trim().length > 0)
templateTags(componentType) ==
  SelectSeq(<<"openchoreo", "component-type">>
              \o inferTagsFromCtd(componentType)
              \o componentType.metadata.tags,
            LAMBDA tag : tag # "" /\ Len(trim(tag)) > 0)

\* --- schema conversion
RECURSIVE convertJsonSchemaProperties(_)
RECURSIVE convertJsonSchemaProperty(_, _)
RECURSIVE convertJsonSchemaDefinition(_)
RECURSIVE convertSchemaObject(_)

\* the fields f of `schema` for which copy[f] holds
Copied(schema, copy) ==
  [f \in {g \in DOMAIN copy : copy[g]} |-> schema[f]]

\* the presentation hints addUIEnhancements sets on `converted`; a later
\* assignment to the same key wins
addUIEnhancements(converted, schema) ==
  LET type == IF Has(schema, "type") THEN schema.type ELSE Undefined
      format == IF Has(schema, "format") THEN schema.format ELSE Undefined
      radio == IF type = "boolean" THEN "ui:widget" :> "radio" ELSE <<>>
      help == IF type = "string" /\ format = "email"
                THEN "ui:help" :> "Enter a valid email address"
              ELSE IF type = "string" /\ format \in {"uri", "hostname"}
                THEN "ui:help" :> "Enter a valid URL"
              ELSE <<>>
      date == IF type = "string" /\ format = "date"
                THEN "ui:widget" :> "date"
              ELSE IF type = "string" /\ format = "date-time"
                THEN "ui:widget" :> "datetime"
              ELSE <<>>
      textarea == IF type = "string" /\ Has(schema, "maxLength")
                     /\ schema.maxLength > 100
                  THEN "ui:widget" :> "textarea" ELSE <<>>
      options == IF type = "array"
                 THEN "ui:options" :> [orderable |-> TRUE, addable |-> TRUE,
                                       removable |-> TRUE]
                 ELSE <<>>
  IN options @@ textarea @@ date @@ help @@ radio @@ converted

convertJsonSchemaProperties(schema) ==
  IF ~Has(schema, "properties") THEN <<>>
  ELSE LET kept == SelectSeq(schema.properties,
                             LAMBDA entry : ~IsBoolean(entry.value))
       IN [n \in 1..Len(kept) |->
             Entry(kept[n].key,
                   convertJsonSchemaProperty(kept[n].key, kept[n].value))]

convertJsonSchemaProperty(key, schema) ==
  LET type == IF Has(schema, "type") THEN schema.type ELSE Undefined
      basic ==
        Copied(schema,
          [title |-> Has(schema, "title") /\ schema.title # "",
           description |-> Has(schema, "description") /\ schema.description # "",
           default |-> Has(schema, "default"),
           enum |-> Has(schema, "enum")])
      string ==
        Copied(schema,
          [pattern |-> Has(schema, "pattern") /\ schema.pattern # "",
           minLength |-> Has(schema, "minLength") /\ schema.minLength # 0,
           maxLength |-> Has(schema, "maxLength") /\ schema.maxLength # 0,
           format |-> Has(schema, "format") /\ schema.format # ""])
      number ==
        Copied(schema,
          [minimum |-> Has(schema, "minimum"),
           maximum |-> Has(schema, "maximum"),
           multipleOf |-> Has(schema, "multipleOf")])
      items ==
        IF Has(schema, "items") /\ Truthy(schema.items)
        THEN [items |->
                IF IsArray(schema.items)
                THEN JsArray([n \in DOMAIN schema.items.array |->
                                convertJsonSchemaDefinition(schema.items.array[n])])
                ELSE convertJsonSchemaDefinition(schema.items)]
        ELSE <<>>
      array ==
        items @@ Copied(schema,
                   [minItems |-> Has(schema, "minItems"),
                    maxItems |-> Has(schema, "maxItems"),
                    uniqueItems |-> Has(schema, "uniqueItems")])
      object ==
        (IF Has(schema, "properties")
         THEN [properties |-> convertJsonSchemaProperties(schema)] ELSE <<>>)
        @@ (IF Has(schema, "additionalProperties")
            THEN [additionalProperties |->
                    convertJsonSchemaDefinition(schema.additionalProperties)]
            ELSE <<>>)
        @@ Copied(schema, [required |-> Has(schema, "required")])
      converted ==
        [type |-> type] @@ basic
          @@ (CASE type = "string" -> string
                [] type \in {"number", "integer"} -> number
                [] type = "array" -> array
                [] type = "object" -> object
                [] OTHER -> <<>>)
  IN addUIEnhancements(converted, schema)

convertJsonSchemaDefinition(def) ==
  IF IsBoolean(def) THEN def ELSE convertJsonSchemaProperty("", def)

convertSchemaObject(schema) ==
  (IF Has(schema, "properties")
   THEN [properties |-> convertJsonSchemaProperties(schema)] ELSE <<>>)
  @@ Copied(schema, [required |-> Has(schema, "required")])
  @@ (IF Has(schema, "if") /\ Truthy(schema.if)
      THEN "if" :> schema.if ELSE <<>>)
  @@ (IF Has(schema, "then") /\ Truthy(schema.then)
      THEN "then" :> (IF IsBoolean(schema.then) THEN schema.then
                      ELSE convertSchemaObject(schema.then))
      ELSE <<>>)
  @@ (IF Has(schema, "else") /\ Truthy(schema.else)
      THEN "else" :> (IF IsBoolean(schema.else) THEN schema.else
                      ELSE convertSchemaObject(schema.else))
      ELSE <<>>)
  @@ (IF Has(schema, "allOf")
      THEN [allOf |-> [n \in DOMAIN schema.allOf |->
                         IF IsBoolean(schema.allOf[n]) THEN schema.allOf[n]
                         ELSE convertSchemaObject(schema.allOf[n])]]
      ELSE <<>>)

\* convertDependencies with every converted schema wrapped in a new allOf
convertDependenciesAlwaysWraps(schema) ==
  IF ~Has(schema, "dependencies") THEN <<>>
  ELSE LET kept == SelectSeq(schema.dependencies,
                             LAMBDA entry : ~IsBoolean(entry.value))
       IN [n \in 1..Len(kept) |->
             Entry(kept[n].key,
                   IF IsArray(kept[n].value) THEN kept[n].value
                   ELSE [allOf |-> <<convertSchemaObject(kept[n].value)>>])]

\* The entries of the converted dependencies.  The code returns undefined
\* instead of an object without entries, so <<>> stands for undefined.
convertDependencies(schema) ==
  IF ~Has(schema, "dependencies") THEN <<>>
  ELSE LET kept == SelectSeq(schema.dependencies,
                             LAMBDA entry : ~IsBoolean(entry.value))
       IN [n \in 1..Len(kept) |->
             Entry(kept[n].key,
                   IF IsArray(kept[n].value) THEN kept[n].value
                   ELSE LET convertedSchema == convertSchemaObject(kept[n].value)
                        IN IF ~Has(convertedSchema, "allOf")
                           THEN [allOf |-> <<convertedSchema>>]
                           ELSE convertedSchema)]

\* --- parameter sections
MetadataSection(organizationName) ==
  [title |-> "Component Metadata",
   required |-> <<"organization_name", "project_name", "component_name">>,
   properties |->
     <<Entry("component_name",
             ("ui:field" :> "EntityNamePicker")
               @@ [title |-> "Component Name", type |-> "string"]),
       Entry("displayName", [title |-> "Display Name", type |-> "string"]),
       Entry("description", [title |-> "Description", type |-> "string"]),
       Entry("organization_name",
             ("ui:disabled" :> TRUE)
               @@ [title |-> "Organization", type |-> "string",
                   default |-> organizationName]),
       Entry("project_name",
             ("ui:field" :> "EntityPicker")
               @@ [title |-> "Project", type |-> "string"])>>]

\* ThenBuiltInCI requiring the workflow name alone
ThenBuiltInCINameOnly(allowedWorkflows) ==
  [properties |->
     <<Entry("workflow_name",
             ("ui:field" :> "BuildWorkflowPicker")
               @@ [title |-> "Build Workflow", type |-> "string",
                   enum |-> allowedWorkflows]),
       Entry("workflow_parameters",
             ("ui:field" :> "BuildWorkflowParameters")
               @@ [title |-> "Workflow Parameters", type |-> "object"])>>,
   required |-> <<"workflow_name">>]

\* the `then` of the conditional on useBuiltInCI being true
ThenBuiltInCI(allowedWorkflows) ==
  [properties |->
     <<Entry("workflow_name",
             ("ui:field" :> "BuildWorkflowPicker")
               @@ [title |-> "Build Workflow", type |-> "string",
                   enum |-> allowedWorkflows]),
       Entry("workflow_parameters",
             ("ui:field" :> "BuildWorkflowParameters")
               @@ [title |-> "Workflow Parameters", type |-> "object"])>>,
   required |-> <<"workflow_name", "workflow_parameters">>]

\* the `then` of the conditional on useBuiltInCI being false
ThenExternalCI ==
  [properties |->
     <<Entry("external_ci_note",
             ("ui:widget" :> "markdown") @@ [type |-> "null"])>>]

\* { if: { properties: { useBuiltInCI: { const: value } } }, then }
WhenBuiltInCI(value, then) ==
  ("if" :> [properties |-> <<Entry("useBuiltInCI", [const |-> value])>>])
    @@ ("then" :> then)

\* generateCISetupSection: <<>> for null, or the one section
generateCISetupSection(componentType) ==
  IF Len(componentType.metadata.allowedWorkflows) = 0 THEN <<>>
  ELSE
    <<[title |-> "CI Setup",
       required |-> <<"useBuiltInCI">>,
       properties |->
         <<Entry("useBuiltInCI",
                 ("ui:widget" :> "radio")
                   @@ [title |-> "Use Built-in CI in OpenChoreo",
                       type |-> "boolean"])>>,
       dependencies |->
         <<Entry("useBuiltInCI",
             [allOf |->
                <<WhenBuiltInCI(TRUE,
                    ThenBuiltInCI(componentType.metadata.allowedWorkflows)),
                  WhenBuiltInCI(FALSE, ThenExternalCI)>>])>>]>>

generateAddonsSection(organizationName) ==
  [title |-> "Addons",
   properties |->
     <<Entry("addons",
             ("ui:field" :> "AddonsField")
               @@ ("ui:options" :> [organizationName |-> organizationName])
               @@ [title |-> "Component Addons", type |-> "array"])>>]

\* the component type's own section: <<>> when the schema has no property
ConfigurationSection(componentType) ==
  LET componentTypeSchema == componentType.spec.inputParametersSchema
  IN IF Has(componentTypeSchema, "properties")
        /\ Len(componentTypeSchema.properties) > 0
     THEN <<[title |-> templateTitle(componentType) \o " Configuration",
             required |-> IF Has(componentTypeSchema, "required")
                          THEN componentTypeSchema.required ELSE <<>>,
             properties |-> convertJsonSchemaProperties(componentTypeSchema),
             dependencies |-> convertDependencies(componentTypeSchema)]>>
     ELSE <<>>

\* generateParameters with the CI Setup section put last
generateParametersCiLast(componentType, organizationName) ==
  <<MetadataSection(organizationName)>>
    \o ConfigurationSection(componentType)
    \o <<generateAddonsSection(organizationName)>>
    \o generateCISetupSection(componentType)

generateParameters(componentType, organizationName) ==
  <<MetadataSection(organizationName)>>
    \o ConfigurationSection(componentType)
    \o generateCISetupSection(componentType)
    \o <<generateAddonsSection(organizationName)>>

\* --- steps
\* obj[key] = value on an object held as the list of its entries: an existing
\* key keeps its place and takes the value, a new key goes to the end
Assign(object, key, value) ==
  IF \E n \in DOMAIN object : object[n].key = key
  THEN [n \in DOMAIN object |->
          IF object[n].key = key THEN Entry(key, value) ELSE object[n]]
  ELSE Append(object, Entry(key, value))

\* an object literal { k1: v1, ...spread, k2: v2 }, given as the list of the
\* entries it names, the spread ones in their place
RECURSIVE ObjectLiteral(_)
ObjectLiteral(entries) ==
  IF entries = <<>> THEN <<>>
  ELSE LET last == entries[Len(entries)]
       IN Assign(ObjectLiteral(SubSeq(entries, 1, Len(entries) - 1)),
                 last.key, last.value)

\* obj[key], undefined for a key the object does not have
Get(object, key) ==
  IF \E n \in DOMAIN object : object[n].key = key
  THEN object[CHOOSE n \in DOMAIN object : object[n].key = key].value
  ELSE Undefined

\* `${{ parameters.<name> }}`
ParameterToken(name) == "${{ parameters." \o name \o " }}"

\* the ctdParameterMappings of generateSteps
ctdParameterMappings(componentType) ==
  LET ctdSchema == componentType.spec.inputParametersSchema
  IN IF Has(ctdSchema, "properties")
     THEN [n \in DOMAIN ctdSchema.properties |->
             Entry(ctdSchema.properties[n].key,
                   ParameterToken(ctdSchema.properties[n].key))]
     ELSE <<>>

generateSteps(componentType) ==
  <<[id |-> "create-component",
     name |-> "Create OpenChoreo Component",
     action |-> "openchoreo:component:create",
     input |->
       ObjectLiteral(
         <<Entry("orgName", ParameterToken("organization_name")),
           Entry("projectName", ParameterToken("project_name")),
           Entry("componentName", ParameterToken("component_name")),
           Entry("displayName", ParameterToken("displayName")),
           Entry("description", ParameterToken("description")),
           Entry("componentType", componentType.metadata.name),
           Entry("component_type_workload_type",
                 componentType.metadata.workloadType)>>
         \o ctdParameterMappings(componentType)
         \o <<Entry("useBuiltInCI", ParameterToken("useBuiltInCI")),
              Entry("repo_url", ParameterToken("repo_url")),
              Entry("branch", ParameterToken("branch")),
              Entry("component_path", ParameterToken("component_path")),
              Entry("workflow_name", ParameterToken("workflow_name")),
              Entry("workflow_parameters", ParameterToken("workflow_parameters")),
              Entry("addons", ParameterToken("addons"))>>)]>>

\* the Template entity convertCtdToTemplateEntity builds: its title, tags,
\* parameters and steps next to the identity convertCtdToTemplateEntity gives
templateEntity(componentType, organizationName) ==
  [metadata |-> [name |-> generateTemplateName(componentType.metadata.name),
                 namespace |-> TemplateNamespace,
                 title |-> templateTitle(componentType),
                 tags |-> templateTags(componentType)],
   spec |-> [owner |-> DefaultOwner,
             type |-> "Component Type",
             parameters |-> generateParameters(componentType, organizationName),
             steps |-> generateSteps(componentType)]]

\* one call of convertCtdToTemplateEntity
ConvertCtd ==
  /\ convertResult = <<>>
  /\ convertResult' = <<templateEntity(convertArgs.componentType,
                                       convertArgs.organizationName)>>
  /\ UNCHANGED <<convertArgs, appvars, rvars>>

\* --- the component types handed to the converter
\* the strings over an alphabet of at most n characters
RECURSIVE Strings(_, _)
Strings(alphabet, n) ==
  IF n = 0 THEN {""}
  ELSE LET shorter == Strings(alphabet, n - 1)
       IN shorter \cup {s \o c : s \in shorter, c \in alphabet}

\* the lists over S of at most n elements
Lists(S, n) == UNION {[1..m -> S] : m \in 0..n}

ObjectSchema(entries) == [type |-> "object", properties |-> entries]

\* scenario A: `web-service`, a deployment with an integer port
WebServiceCtd ==
  ComponentType("web-service", "", "deployment", <<>>, <<>>,
    ObjectSchema(<<Entry("port", [type |-> "integer", default |-> "8080"])>>))

\* names, workload types and upstream tags: hyphens, blanks, upper case,
\* repeated parts and a fixed tag among them
NameAlphabet == {"a", "b", "-", " "}
WorkloadTypes == {"", "A", "deployment"}
UpstreamTags == {"", " ", "a", "openchoreo"}

TagCtds ==
  {ComponentType(name, "", workloadType, tags, <<>>, ObjectSchema(<<>>)) :
     name \in Strings(NameAlphabet, MaxNameLength) \ {""},
     workloadType \in WorkloadTypes,
     tags \in Lists(UpstreamTags, MaxTags)}

\* component types with and without display name, parameters and workflows
WorkflowNames == {"docker", "buildpack"}

ParameterSchemas ==
  {[type |-> "object"],
   ObjectSchema(<<Entry("flag", [jsBoolean |-> TRUE])>>)}
    \cup {ObjectSchema([m \in 1..n |->
                          Entry("param" \o ToString(m), [type |-> "string"])]) :
            n \in 0..MaxProperties}

SectionCtds ==
  {ComponentType("web-service", displayName, "deployment", <<>>,
                 allowedWorkflows, schema) :
     displayName \in {"", "Web API"},
     allowedWorkflows \in Lists(WorkflowNames, MaxWorkflows),
     schema \in ParameterSchemas}

\* leaf schemas: each type bare, with each of its constraints at each value,
\* and with all of them
Leaves ==
  {[type |-> "string"], [type |-> "boolean"], [type |-> "integer"],
   [type |-> "number"], [enum |-> <<"x", "y">>],
   [type |-> "boolean", default |-> "true"],
   [type |-> "string", title |-> "T", description |-> "d", default |-> "x"],
   [type |-> "string", enum |-> <<"x", "y">>],
   [type |-> "string", pattern |-> "^x$"],
   [type |-> "string", format |-> "email"],
   [type |-> "string", format |-> "date"],
   [type |-> "array", minItems |-> 0, maxItems |-> 1, uniqueItems |-> FALSE],
   [type |-> "string", minLength |-> 1, maxLength |-> 200, pattern |-> "^x$",
    format |-> "uri"],
   [type |-> "integer", title |-> "T", description |-> "d", default |-> "8080",
    minimum |-> 1, maximum |-> 65535, multipleOf |-> 1]}
    \cup {[type |-> "string", minLength |-> v] : v \in 0..MaxConstraint}
    \cup {[type |-> "string", maxLength |-> v] : v \in 0..MaxConstraint}
    \cup {[type |-> t, minimum |-> v] :
            t \in {"integer", "number"}, v \in 0..MaxConstraint}
    \cup {[type |-> t, maximum |-> v] :
            t \in {"integer", "number"}, v \in 0..MaxConstraint}
    \cup {[type |-> "integer", multipleOf |-> v] : v \in 1..MaxConstraint}

BooleanSchemas == {BooleanSchema(TRUE), BooleanSchema(FALSE)}

\* schema definitions nested at most n deep: leaves and boolean schemas,
\* objects of one property, arrays of one item schema and tuples
RECURSIVE Definitions(_)
Definitions(n) ==
  IF n = 0 THEN Leaves \cup BooleanSchemas
  ELSE LET inner == Definitions(n - 1)
       IN inner
            \cup {ObjectSchema(<<Entry("q", d)>>) : d \in inner}
            \cup {[type |-> "array", items |-> d, minItems |-> 0,
                   maxItems |-> MaxConstraint, uniqueItems |-> TRUE] : d \in inner}
            \cup {[type |-> "array",
                   items |-> JsArray(<<d, BooleanSchema(TRUE)>>)] : d \in inner}

TreeCtds ==
  {ComponentType("web-service", "", "deployment", <<>>, <<>>,
     ObjectSchema(<<Entry("p", d), Entry("r", [type |-> "boolean"])>>)) :
       d \in Definitions(MaxDepth)}

\* { if: { properties: { p: { const: true } } }, then, else }
Conditional(then) ==
  ("if" :> [properties |-> <<Entry("p", [const |-> TRUE])>>])
    @@ ("then" :> then)

ConditionalElse(then, else) == Conditional(then) @@ ("else" :> else)

Bodies ==
  {[properties |-> <<Entry("q", [type |-> "string", minLength |-> 1])>>,
    required |-> <<"q">>],
   [properties |-> <<Entry("q", [type |-> "string"]),
                     Entry("s", BooleanSchema(TRUE))>>]}

Conditionals ==
  {Conditional(b) : b \in Bodies \cup BooleanSchemas}
    \cup {ConditionalElse(b, e) : b \in Bodies, e \in Bodies \cup BooleanSchemas}
    \cup {Conditional([allOf |-> <<Conditional(b)>>]) : b \in Bodies}

\* the values of a `dependencies` entry: array form, boolean, a schema without
\* allOf (a single conditional or a plain schema), a schema with allOf
Dependencies ==
  {JsArray(<<"q">>), JsArray(<<"q", "r">>)}
    \cup BooleanSchemas
    \cup Conditionals
    \cup Bodies
    \cup {[allOf |-> list] :
            list \in Lists({Conditional(b) : b \in Bodies} \cup BooleanSchemas,
                           MaxAllOf)}

DependencyCtds ==
  {ComponentType("web-service", "", "deployment", <<>>, <<>>,
     [type |-> "object",
      properties |-> <<Entry("p", [type |-> "boolean"]),
                       Entry("q", [type |-> "string"]),
                       Entry("r", [type |-> "string"])>>,
      dependencies |-> <<Entry("p", d), Entry("q", e),
                         Entry("r", JsArray(<<"p">>))>>]) :
       d \in Dependencies,
       e \in {Conditional([required |-> <<"r">>]), BooleanSchema(FALSE)}}

\* ------------------------------------------------------------ flattenSchema
\* formatFieldName: the parts between the dots of a path, each with its first
\* character in upper case, joined by spaces
formatFieldName(path) ==
  join([n \in DOMAIN split(path, ".") |->
          LET part == split(path, ".")[n]
          IN IF Len(part) = 0 THEN ""
             ELSE toUpperCase(Head(part)) \o Tail(part)],
       " ")

\* The FlattenedField of a property that is not flattened further.
FlattenedField(key, prop, fullPath, isRequired, parentPath, parentTitle) ==
  [path |-> fullPath,
   displayName |-> IF Has(prop, "title") /\ prop.title # "" THEN prop.title
                   ELSE formatFieldName(key),
   type |-> IF Has(prop, "type") /\ prop.type # "" THEN prop.type ELSE "string",
   required |-> isRequired,
   default |-> IF Has(prop, "default") THEN prop.default ELSE Undefined,
   description |-> IF Has(prop, "description") THEN prop.description
                   ELSE Undefined,
   parentPath |-> IF parentPath # "" THEN parentPath ELSE Undefined,
   parentTitle |-> parentTitle]

\* flattenSchemaKeyAsPath giving every field its key as path
RECURSIVE flattenSchemaKeyAsPath(_, _, _, _)
flattenSchemaKeyAsPath(schema, parentPath, parentRequired, parentTitle) ==
  IF ~Has(schema, "properties") THEN <<>>
  ELSE
    LET required == IF Has(schema, "required") THEN schema.required ELSE <<>>
        fieldsOf(entry) ==
          LET key == entry.key
              prop == entry.value
              fullPath == key
              isRequired == includes(required, key)
                              \/ includes(parentRequired, fullPath)
          IN IF IsBoolean(prop) THEN <<>>
             ELSE IF Has(prop, "type") /\ prop.type = "object"
                       /\ Has(prop, "properties")
             THEN flattenSchemaKeyAsPath(
                    prop, fullPath, required,
                    IF Has(prop, "title") /\ prop.title # "" THEN prop.title
                    ELSE formatFieldName(key))
             ELSE <<FlattenedField(key, prop, fullPath, isRequired, parentPath,
                                   parentTitle)>>
        RECURSIVE forEach(_)
        forEach(n) ==
          IF n > Len(schema.properties) THEN <<>>
          ELSE fieldsOf(schema.properties[n]) \o forEach(n + 1)
    IN forEach(1)

\* flattenSchema(schema, parentPath = '', parentRequired = [], parentTitle)
RECURSIVE flattenSchema(_, _, _, _)
flattenSchema(schema, parentPath, parentRequired, parentTitle) ==
  IF ~Has(schema, "properties") THEN <<>>
  ELSE
    LET required == IF Has(schema, "required") THEN schema.required ELSE <<>>
        fieldsOf(entry) ==
          LET key == entry.key
              prop == entry.value
              fullPath == IF parentPath # "" THEN parentPath \o "." \o key
                          ELSE key
              isRequired == includes(required, key)
                              \/ includes(parentRequired, fullPath)
          IN IF IsBoolean(prop) THEN <<>>
             ELSE IF Has(prop, "type") /\ prop.type = "object"
                       /\ Has(prop, "properties")
             THEN flattenSchema(
                    prop, fullPath, required,
                    IF Has(prop, "title") /\ prop.title # "" THEN prop.title
                    ELSE formatFieldName(key))
             ELSE <<FlattenedField(key, prop, fullPath, isRequired, parentPath,
                                   parentTitle)>>
        RECURSIVE forEach(_)
        forEach(n) ==
          IF n > Len(schema.properties) THEN <<>>
          ELSE fieldsOf(schema.properties[n]) \o forEach(n + 1)
    IN forEach(1)

\* one call flattenSchema(schema)
FlattenSchema ==
  /\ flattenResult = <<>>
  /\ flattenResult' = <<flattenSchema(flattenArgs, "", <<>>, Undefined)>>
  /\ UNCHANGED <<flattenArgs, apiArgs, apiResult, cvars, tvars, wvars, avars,
                 rvars>>

\* --- the schemas handed to flattenSchema
\* property keys; a key may hold a dot
FlattenKeys == {"a", "b", "a.b"}

\* the entry lists of at most n properties with different keys
Properties(keys, defs, n) ==
  {e \in Lists(keys \X defs, n) :
     \A x, y \in DOMAIN e : x # y => e[x][1] # e[y][1]}

PropertyEntries(e) == [n \in DOMAIN e |-> Entry(e[n][1], e[n][2])]

\* properties that are fields: typed, titled with a default, without a type,
\* an object without properties
FlattenLeaves ==
  {[type |-> "string"],
   [type |-> "integer", title |-> "Port", default |-> "8080",
    description |-> "The port"],
   [description |-> "no type"],
   [type |-> "object"]}

\* objects of fields under the keys a and b
FlattenGroups ==
  {[type |-> "object", properties |-> PropertyEntries(e)] @@ r :
     e \in Properties({"a", "b"}, {[type |-> "string"],
                                   [type |-> "integer", title |-> "Port"]},
                      MaxProperties),
     r \in {<<>>, [required |-> <<"b">>, title |-> "Group"]}}

\* an object holding one group under the key b
FlattenNests ==
  {[type |-> "object", properties |-> <<Entry("b", group)>>] @@ r :
     group \in FlattenGroups, r \in {<<>>, [required |-> <<"b">>]}}

FlattenSchemas ==
  {ObjectSchema(PropertyEntries(e)) @@ r :
     e \in Properties(FlattenKeys,
                      FlattenLeaves \cup {BooleanSchema(TRUE)} \cup FlattenGroups,
                      MaxProperties)
             \cup Properties({"a"}, FlattenNests, 1),
     r \in {<<>>, [required |-> <<"b">>], [required |-> <<"a.b">>]}}
       \cup {[type |-> "object"]}

\* ------------------------------------------- createApiEntitiesFromWorkload
\* The call of run() on the enriched component of a Service: the API entities,
\* or the TypeError of an endpoint without type or port.
CreateApiEntities ==
  /\ apiResult = <<>>
  /\ apiResult' =
       <<IF createApiEntitiesThrows(apiArgs)
         THEN [threw |-> TRUE, entities |-> <<>>]
         ELSE [threw |-> FALSE,
               entities |-> createApiEntitiesFromWorkload(
                              apiArgs, OrgRecord(1).name, ProjectRecord(1).name)]>>
  /\ UNCHANGED <<apiArgs, flattenArgs, flattenResult, cvars, tvars, wvars,
                 avars, rvars>>

\* --- the components handed to createApiEntitiesFromWorkload
\* the endpoint types of the mapping table, two it does not name, and none
EndpointTypes ==
  {"REST", "HTTP", "GraphQL", "gRPC", "Websocket", "TCP", "UDP", "SOAP", "rest",
   Undefined}

Endpoint(n, type) ==
  [name |-> "ep" \o ToString(n), type |-> type,
   port |-> IF type = Undefined THEN Undefined ELSE "8080"]

\* service components with at most MaxEndpoints endpoints
EndpointComponents ==
  {CompleteComponent(ServiceComponent, [n \in DOMAIN types |-> Endpoint(n, types[n])]) :
     types \in Lists(EndpointTypes, MaxEndpoints)}

\* ---------------------------------------------------- createComponentAction
\* The form of a template collects one value per property key of its
\* sections into `parameters`.  The user here fills every field but leaves
\* CI off and adds no addon; the organization is the disabled field's default
\* and the project an entity reference.
FormValue(template, key) ==
  CASE key = "organization_name" ->
         Get(template.spec.parameters[1].properties, key).default
    [] key = "project_name" -> "system:default/" \o ProjectRecord(1).name
    [] OTHER -> "the " \o key

FormData(template) ==
  LET RECURSIVE sections(_)
      sections(n) ==
        IF n > Len(template.spec.parameters) THEN <<>>
        ELSE template.spec.parameters[n].properties \o sections(n + 1)
      shown == SelectSeq(sections(1),
                         LAMBDA entry : entry.key \notin {"useBuiltInCI", "addons"})
  IN ObjectLiteral([n \in DOMAIN shown |->
                      Entry(shown[n].key, FormValue(template, shown[n].key))])

\* The scaffolder's expansion of a step input value: `${{ parameters.<name> }}`
\* is parameters[name], any other string is itself.
TokenPrefix == "${{ parameters."
TokenSuffix == " }}"

IsParameterToken(value) ==
  /\ Len(value) >= Len(TokenPrefix) + Len(TokenSuffix)
  /\ SubSeq(value, 1, Len(TokenPrefix)) = TokenPrefix
  /\ SubSeq(value, Len(value) - Len(TokenSuffix) + 1, Len(value)) = TokenSuffix

Expand(value, parameters) ==
  IF IsParameterToken(value)
  THEN Get(parameters,
           SubSeq(value, Len(TokenPrefix) + 1, Len(value) - Len(TokenSuffix)))
  ELSE value

\* the task of the template's step: ctx.input is the expanded step input
RunTemplate ==
  /\ convertResult # <<>>
  /\ taskInput = <<>>
  /\ LET template == convertResult[1]
         input == template.spec.steps[1].input
     IN taskInput' =
          <<[n \in DOMAIN input |->
               Entry(input[n].key, Expand(input[n].value, FormData(template)))]>>
  /\ UNCHANGED <<resource, cvars, pvars, wvars, avars, rvars>>

\* extractOrgName, extractProjectName: the part after the last '/'
extractOrgName(fullOrgName) ==
  split(fullOrgName, "/")[Len(split(fullOrgName, "/"))]

knownScaffolderFields ==
  {"orgName", "projectName", "componentName", "displayName", "description",
   "componentType", "useBuiltInCI", "workflow_name", "workflow_parameters",
   "addons", "external_ci_note", "repo_url", "branch", "component_path",
   "component_type_workload_type"}

\* the entries of ctx.input whose key is not a known scaffolder field
ctdParameters(input) ==
  SelectSeq(input, LAMBDA entry : entry.key \notin knownScaffolderFields)

\* a value that is given: neither undefined nor the empty string
Given(value) == value # Undefined /\ value # ""

\* The resource buildComponentResource returns.  Of the workflow it has the
\* name; the traits are the addons.
buildComponentResource(input) ==
  [apiVersion |-> "openchoreo.dev/v1alpha1",
   kind |-> "Component",
   metadata |->
     [name |-> input.componentName,
      namespace |-> input.organizationName,
      annotations |->
        (IF Given(input.displayName)
         THEN <<Entry("openchoreo.dev/display-name", input.displayName)>>
         ELSE <<>>)
        \o (IF Given(input.description)
            THEN <<Entry("openchoreo.dev/description", input.description)>>
            ELSE <<>>)],
   spec |->
     [owner |-> [projectName |-> input.projectName],
      componentType |->
        input.componentTypeWorkloadType \o "/" \o input.componentType,
      parameters |-> input.ctdParameters,
      workflow |-> IF Given(input.useBuiltInCI) /\ Given(input.workflowName)
                        /\ Given(input.workflowParameters)
                   THEN input.workflowName ELSE Absent,
      traits |-> IF Given(input.addons) THEN input.addons ELSE Absent]]

\* the handler of openchoreo:component:create up to the /apply call
CreateComponent ==
  /\ taskInput # <<>>
  /\ resource = <<>>
  /\ LET input == taskInput[1]
     IN resource' =
          <<buildComponentResource(
              [componentName |-> Get(input, "componentName"),
               displayName |-> Get(input, "displayName"),
               description |-> Get(input, "description"),
               organizationName |-> extractOrgName(Get(input, "orgName")),
               projectName |-> extractOrgName(Get(input, "projectName")),
               componentType |-> Get(input, "componentType"),
               componentTypeWorkloadType |->
                 IF Given(Get(input, "component_type_workload_type"))
                 THEN Get(input, "component_type_workload_type")
                 ELSE "deployment",
               ctdParameters |-> ctdParameters(input),
               useBuiltInCI |-> Get(input, "useBuiltInCI"),
               workflowName |-> Get(input, "workflow_name"),
               workflowParameters |-> Get(input, "workflow_parameters"),
               addons |-> Get(input, "addons")])>>
  /\ UNCHANGED <<taskInput, cvars, pvars, wvars, avars, rvars>>

\* --- the component types whose templates are run
\* parameter keys: two of the type's own and four that name a step input
ParameterKeys ==
  {"port", "replicas", "orgName", "description", "branch", "componentType"}

ParameterCtds ==
  {ComponentType("web-service", "", "deployment", <<>>, <<>>,
     ObjectSchema([n \in DOMAIN keys |-> Entry(keys[n], [type |-> "string"])])) :
       keys \in {l \in Lists(ParameterKeys, MaxProperties) :
                   \A x, y \in DOMAIN l : x # y => l[x] # l[y]}}

\* -------------------------------------------------- BuildWorkflowParameters
\* The field is mounted in a form whose organization is set.  A change of the
\* sibling field workflow_name renders the field anew and schedules its
\* effect; React runs a scheduled effect, after the cleanup of the previous
\* one, before it renders again.  A fetch is in flight from the run of its
\* effect to its response, which may arrive at any later time.
\* `values` and the argument of onChange are the same object at every call.

\* the schema the backend returns for a workflow
WorkflowSchema(workflowName) ==
  IF workflowName = "docker"
  THEN ObjectSchema(
         <<Entry("docker",
                 [type |-> "object", required |-> <<"context">>,
                  properties |->
                    <<Entry("context", [type |-> "string", default |-> "."]),
                      Entry("filePath", [type |-> "string"])>>])>>)
  ELSE ObjectSchema(
         <<Entry("builder", [type |-> "string", default |-> "paketo"]),
           Entry("verbose", [type |-> "boolean"])>>)

\* one run of the effect: the dependency it was rendered with, the `values`
\* of its closure, its `ignore` and how far fetchWorkflowSchema has come:
\* scheduled, inflight, returned (nothing to fetch), fulfilled, rejected
EffectRun(workflowName, closure) ==
  [workflow |-> workflowName, values |-> closure, ignore |-> FALSE,
   state |-> "scheduled"]

Last(list) == list[Len(list)]

\* formContext.formData.workflow_name changes; the field is rendered anew
SelectWorkflow ==
  /\ effects # <<>>
  /\ Last(effects).state # "scheduled"
  /\ Len(effects) <= MaxSelections
  /\ \E workflowName \in WorkflowNames \cup {""} :
       /\ workflowName # selectedWorkflowName
       /\ selectedWorkflowName' = workflowName
       /\ effects' = Append(effects, EffectRun(workflowName, values))
  /\ UNCHANGED <<fields, values, loading, error, cvars, pvars, tvars, avars,
                 rvars>>

\* the cleanup of the previous effect, then fetchWorkflowSchema() up to its
\* first await
RunEffect ==
  /\ effects # <<>>
  /\ Last(effects).state = "scheduled"
  /\ LET fetches == Last(effects).workflow # ""
     IN /\ effects' =
             [n \in DOMAIN effects |->
                IF n < Len(effects) THEN [effects[n] EXCEPT !.ignore = TRUE]
                ELSE [effects[n] EXCEPT
                        !.state = IF fetches THEN "inflight" ELSE "returned"]]
        /\ error' = ""
        /\ IF fetches
           THEN loading' = TRUE /\ fields' = fields
           ELSE loading' = loading /\ fields' = <<>>
  /\ UNCHANGED <<selectedWorkflowName, values, cvars, pvars, tvars, avars,
                 rvars>>

\* the values of the effect's closure with the defaults of the fields that
\* have one and no value yet
WithDefaults(closure, flattenedFields) ==
  LET RECURSIVE forEach(_)
      forEach(n) ==
        IF n = 0 THEN closure
        ELSE LET newValues == forEach(n - 1)
                 field == flattenedFields[n]
             IN IF (\A at \in DOMAIN newValues :
                       newValues[at].key # field.path)
                     /\ field.default # Undefined
                THEN Assign(newValues, field.path, field.default)
                ELSE newValues
  IN forEach(Len(flattenedFields))

\* WorkflowSchemaFetched without the test of `ignore`
WorkflowSchemaFetchedAppliesLate ==
  \E n \in DOMAIN effects :
    /\ effects[n].state = "inflight"
    /\ effects' = [effects EXCEPT ![n].state = "fulfilled"]
    /\ LET flattenedFields ==
             flattenSchema(WorkflowSchema(effects[n].workflow), "", <<>>, Undefined)
       IN /\ fields' = flattenedFields
          /\ values' = WithDefaults(effects[n].values, flattenedFields)
          /\ loading' = FALSE
    /\ UNCHANGED <<selectedWorkflowName, error, cvars, pvars, tvars, avars,
                   rvars>>

\* a fetch answers with the schema of its workflow
WorkflowSchemaFetched ==
  \E n \in DOMAIN effects :
    /\ effects[n].state = "inflight"
    /\ effects' = [effects EXCEPT ![n].state = "fulfilled"]
    /\ LET flattenedFields ==
             flattenSchema(WorkflowSchema(effects[n].workflow), "", <<>>, Undefined)
       IN IF ~effects[n].ignore
          THEN /\ fields' = flattenedFields
               /\ values' = WithDefaults(effects[n].values, flattenedFields)
               /\ loading' = FALSE
          ELSE UNCHANGED <<fields, values, loading>>
    /\ UNCHANGED <<selectedWorkflowName, error, cvars, pvars, tvars, avars,
                   rvars>>

\* a fetch fails: the call rejects, the status is not ok, or the envelope has
\* no success or no data
WorkflowSchemaFetchFailed ==
  \E n \in DOMAIN effects :
    /\ effects[n].state = "inflight"
    /\ effects' = [effects EXCEPT ![n].state = "rejected"]
    /\ IF ~effects[n].ignore
       THEN /\ error' = "Failed to fetch workflow schema"
            /\ fields' = <<>>
            /\ loading' = FALSE
       ELSE UNCHANGED <<fields, loading, error>>
    /\ UNCHANGED <<selectedWorkflowName, values, cvars, pvars, tvars, avars,
                   rvars>>

\* the user types into one of the rendered fields
handleFieldChange ==
  /\ selectedWorkflowName # "" /\ ~loading /\ error = "" /\ fields # <<>>
  /\ \E n \in DOMAIN fields :
       /\ Get(values, fields[n].path) # "typed"
       /\ values' = Assign(values, fields[n].path, "typed")
  /\ UNCHANGED <<selectedWorkflowName, fields, loading, error, effects, cvars,
                 pvars, tvars, avars, rvars>>

\* -------------------------------------------------------------- AddonsField
\* The field is mounted in a form whose organization is set, and the list of
\* available addons has been fetched.  A handler runs with the state of the
\* render it was created in: the synchronous ones with the current state, the
\* continuation of handleAddAddon with the state at the time of the click.

\* result.data.items of GET /addons: the names the Select offers
AvailableAddons == {"storage", "autoscaler"}

\* the Select, disabled while a schema is loading
SelectAddon ==
  /\ ~loadingSchema
  /\ \E name \in AvailableAddons :
       name # selectedAddon /\ selectedAddon' = name
  /\ UNCHANGED <<addedAddons, loadingSchema, adding, formData, now,
                 addonsError, cvars, pvars, tvars, wvars, rvars>>

\* the click on Add Addon, up to the await of the schema; the button is
\* disabled while a schema is loading
handleAddAddon ==
  /\ selectedAddon # "" /\ ~loadingSchema
  /\ now + Len(adding) < MaxAddons
  /\ loadingSchema' = TRUE
  /\ addonsError' = ""
  /\ adding' = Append(adding, [selectedAddon |-> selectedAddon,
                               addedAddons |-> addedAddons])
  /\ UNCHANGED <<addedAddons, selectedAddon, formData, now, cvars, pvars,
                 tvars, wvars, rvars>>

\* const newAddon, built from the state the call was made in
NewAddon(call) ==
  [id |-> call.selectedAddon \o "-" \o ToString(now),
   name |-> call.selectedAddon,
   instanceName |->
     call.selectedAddon \o "-" \o ToString(Len(call.addedAddons) + 1),
   config |-> "{}",
   schema |-> "schema of " \o call.selectedAddon]

\* const updatedAddons = [...addedAddons, newAddon]
updatedAddons(call) == Append(call.addedAddons, NewAddon(call))

\* the schema arrives with success; the clock has moved on for the next call
AddonSchemaFetched ==
  /\ adding # <<>>
  /\ addedAddons' = updatedAddons(Head(adding))
  /\ formData' = updatedAddons(Head(adding))
  /\ selectedAddon' = ""
  /\ loadingSchema' = FALSE
  /\ adding' = Tail(adding)
  /\ now' = now + 1
  /\ UNCHANGED <<addonsError, cvars, pvars, tvars, wvars, rvars>>

\* the fetch throws or the status is not ok (catch), or the envelope has no
\* success (nothing but finally)
AddonSchemaFetchFailed ==
  /\ adding # <<>>
  /\ \E thrown \in BOOLEAN :
       addonsError' = IF thrown THEN "Failed to fetch addon schema"
                      ELSE addonsError
  /\ loadingSchema' = FALSE
  /\ adding' = Tail(adding)
  /\ UNCHANGED <<addedAddons, selectedAddon, formData, now, cvars, pvars,
                 tvars, wvars, rvars>>

\* the delete button of a card
handleRemoveAddon ==
  /\ \E n \in DOMAIN addedAddons :
       LET id == addedAddons[n].id
           filtered == SelectSeq(addedAddons, LAMBDA addon : addon.id # id)
       IN addedAddons' = filtered /\ formData' = filtered
  /\ UNCHANGED <<selectedAddon, loadingSchema, adding, now, addonsError,
                 cvars, pvars, tvars, wvars, rvars>>

\* addedAddons.map(addon => addon.id === id ? { ...addon, [f]: v } : addon)
MapAddon(id, f, v) ==
  [n \in DOMAIN addedAddons |->
     IF addedAddons[n].id = id THEN [addedAddons[n] EXCEPT ![f] = v]
     ELSE addedAddons[n]]

\* the instance name text field of a card
handleInstanceNameChange ==
  /\ \E n \in DOMAIN addedAddons :
       /\ addedAddons[n].instanceName # "renamed"
       /\ LET mapped == MapAddon(addedAddons[n].id, "instanceName", "renamed")
          IN addedAddons' = mapped /\ formData' = mapped
  /\ UNCHANGED <<selectedAddon, loadingSchema, adding, now, addonsError,
                 cvars, pvars, tvars, wvars, rvars>>

\* the configuration form of a card
handleAddonConfigChange ==
  /\ \E n \in DOMAIN addedAddons :
       /\ addedAddons[n].config # "{size: 2}"
       /\ LET mapped == MapAddon(addedAddons[n].id, "config", "{size: 2}")
          IN addedAddons' = mapped /\ formData' = mapped
  /\ UNCHANGED <<selectedAddon, loadingSchema, adding, now, addonsError,
                 cvars, pvars, tvars, wvars, rvars>>

\* ------------------------------------------------------------ specification
InitRun ==
  /\ connection = FALSE
  /\ pc = "idle"
  /\ run = 0
  /\ calls = <<>>
  /\ logs = [warn |-> 0, error |-> 0]
  /\ organizations = <<>> /\ projects = <<>> /\ components = <<>>
  /\ ctdItems = <<>> /\ pending = <<>> /\ allEntities = <<>>
  /\ i = 1 /\ j = 1 /\ k = 1
  /\ sink = <<>>
  /\ status = "none"

\* no conversion is asked for
NoConversion ==
  /\ convertArgs = [componentType |-> WebServiceCtd,
                    organizationName |-> OrgRecord(1).name]
  /\ convertResult = <<>>

\* no flattenSchema call is asked for
NoFlattening ==
  /\ flattenArgs = [type |-> "object"]
  /\ flattenResult = <<>>

\* no createApiEntitiesFromWorkload call is asked for on its own
NoApiCreation ==
  /\ apiArgs = CompleteComponent(ServiceComponent, <<>>)
  /\ apiResult = <<>>

\* no template is run
NoTask == taskInput = <<>> /\ resource = <<>>

\* no BuildWorkflowParameters field is mounted
NoWorkflowField ==
  /\ selectedWorkflowName = ""
  /\ fields = <<>> /\ values = <<>> /\ loading = FALSE /\ error = ""
  /\ effects = <<>>

\* no AddonsField is mounted
NoAddonsField ==
  /\ addedAddons = <<>> /\ selectedAddon = "" /\ loadingSchema = FALSE
  /\ adding = <<>> /\ formData = <<>> /\ now = 0 /\ addonsError = ""

\* nothing but the entity provider and the converter is in use
AppIdle ==
  NoFlattening /\ NoApiCreation /\ NoTask /\ NoWorkflowField /\ NoAddonsField

\* one scheduled run, nothing known of the upstream data
Init == InitRun /\ runsLeft = 1 /\ upstream = <<>> /\ NoConversion /\ AppIdle

Next ==
  \/ Connect
  \/ StartRun
  \/ FetchOrganizationsFail
  \/ FetchOrganizations
  \/ FetchEnvironmentsFail
  \/ FetchEnvironments
  \/ FetchDataplanesFail
  \/ FetchDataplanes
  \/ FetchProjectsFail
  \/ FetchProjects
  \/ FetchComponentsFail
  \/ FetchComponents
  \/ TranslateComponent
  \/ FetchServiceComponent
  \/ FetchServiceComponentFail
  \/ ListCtdsFail
  \/ ListCtds
  \/ SchemaFetched
  \/ SchemaFetchFail
  \/ JoinSchemas
  \/ CommitResolves
  \/ CommitRejects

Spec == Init /\ [][Next]_vars

\* Upstream data that leaves open the organization list and, of org1, the
\* project list, the components and the Service detail of proj1, the
\* component type list and its schemas.  The rest is known: org1 has one
\* environment, its dataplane list and the components of its other projects
\* fail; every other organization has one dataplane, failing environment and
\* project lists, and component types of which only ctd1 has a schema to fetch.
KnownCalls ==
  {EnvsCall(OrgRecord(1).name), DataplanesCall(OrgRecord(1).name)}
    \cup {ComponentsCall(OrgRecord(1).name, ProjectRecord(m).name) :
            m \in 2..MaxProjects}
    \cup UNION {{EnvsCall(OrgRecord(n).name), DataplanesCall(OrgRecord(n).name),
                 ProjectsCall(OrgRecord(n).name), ListCtdsCall(OrgRecord(n).name)}
                  \cup {SchemaCall(OrgRecord(n).name, CtdItem(t).name) :
                          t \in 1..MaxCtds}
                : n \in 2..MaxOrgs}

KnownUpstream ==
  [c \in KnownCalls |->
     CASE c.op = "getAllEnvironments" ->
            IF c.org = OrgRecord(1).name THEN Ok(<<EnvironmentRecord>>)
            ELSE Unsuccessful
       [] c.op = "getAllDataplanes" ->
            IF c.org = OrgRecord(1).name THEN Unsuccessful
            ELSE Ok(<<DataplaneRecord>>)
       [] c.op = "getAllProjects" -> Unsuccessful
       [] c.op = "getAllComponents" -> Unsuccessful
       [] c.op = "listCTDs" -> Ok([t \in 1..MaxCtds |-> CtdItem(t)])
       [] c.op = "getCTDSchema" ->
            IF c.name = CtdItem(1).name THEN Ok(<<"schema-of-" \o c.name>>)
            ELSE Rejected]

\* the scheduler triggers the run MaxRuns times against the same upstream data
InitTwice ==
  /\ InitRun /\ runsLeft = MaxRuns /\ upstream = KnownUpstream
  /\ NoConversion /\ AppIdle

SpecTwice == InitTwice /\ [][Next]_vars

\* The steps of a run that is under way: the settlement of an awaited call
\* (either way) and the continuation of run() after it.
Progress ==
  \/ FetchOrganizationsFail \/ FetchOrganizations
  \/ FetchEnvironmentsFail \/ FetchEnvironments
  \/ FetchDataplanesFail \/ FetchDataplanes
  \/ FetchProjectsFail \/ FetchProjects
  \/ FetchComponentsFail \/ FetchComponents
  \/ TranslateComponent
  \/ FetchServiceComponent \/ FetchServiceComponentFail
  \/ ListCtdsFail \/ ListCtds
  \/ SchemaFetched \/ SchemaFetchFail
  \/ JoinSchemas
  \/ CommitResolves \/ CommitRejects

\* Every awaited call eventually resolves or rejects and the event loop then
\* resumes run(); when the scheduler triggers a run is left open.
SpecLive == InitTwice /\ [][Next]_vars /\ WF_vars(Progress)

\* One convertCtdToTemplateEntity call on any of the component types; no run
\* is scheduled.
InitConvert ==
  /\ InitRun /\ runsLeft = 0 /\ upstream = <<>>
  /\ convertArgs \in
       [componentType : TagCtds \cup SectionCtds \cup TreeCtds \cup DependencyCtds,
        organizationName : {OrgRecord(1).name}]
  /\ convertResult = <<>>
  /\ AppIdle

NextConvert == ConvertCtd

SpecConvert == InitConvert /\ [][NextConvert]_vars

\* no run is scheduled
NoRun == InitRun /\ runsLeft = 0 /\ upstream = <<>>

\* One flattenSchema call on any of the schemas.
InitFlatten ==
  /\ NoRun /\ NoConversion
  /\ NoApiCreation /\ NoTask /\ NoWorkflowField /\ NoAddonsField
  /\ flattenArgs \in FlattenSchemas
  /\ flattenResult = <<>>

NextFlatten == FlattenSchema

SpecFlatten == InitFlatten /\ [][NextFlatten]_vars

\* One createApiEntitiesFromWorkload call on any of the service components.
InitApi ==
  /\ NoRun /\ NoConversion
  /\ NoFlattening /\ NoTask /\ NoWorkflowField /\ NoAddonsField
  /\ apiArgs \in EndpointComponents
  /\ apiResult = <<>>

NextApi == CreateApiEntities

SpecApi == InitApi /\ [][NextApi]_vars

\* The template of any of the component types is generated and run once.
InitCreate ==
  /\ NoRun /\ AppIdle
  /\ convertArgs \in [componentType : ParameterCtds,
                      organizationName : {OrgRecord(1).name}]
  /\ convertResult = <<>>

NextCreate == ConvertCtd \/ RunTemplate \/ CreateComponent

SpecCreate == InitCreate /\ [][NextCreate]_vars

\* A BuildWorkflowParameters field is mounted with no workflow selected; its
\* first effect is scheduled.
InitWorkflow ==
  /\ NoRun /\ NoConversion
  /\ NoFlattening /\ NoApiCreation /\ NoTask /\ NoAddonsField
  /\ selectedWorkflowName = ""
  /\ fields = <<>> /\ values = <<>> /\ loading = FALSE /\ error = ""
  /\ effects = <<EffectRun("", <<>>)>>

NextWorkflow ==
  \/ SelectWorkflow
  \/ RunEffect
  \/ WorkflowSchemaFetched
  \/ WorkflowSchemaFetchFailed
  \/ handleFieldChange

SpecWorkflow == InitWorkflow /\ [][NextWorkflow]_vars

\* An AddonsField is mounted with no form data.
InitAddons ==
  /\ NoRun /\ NoConversion
  /\ NoFlattening /\ NoApiCreation /\ NoTask /\ NoWorkflowField
  /\ NoAddonsField

NextAddons ==
  \/ SelectAddon
  \/ handleAddAddon
  \/ AddonSchemaFetched
  \/ AddonSchemaFetchFailed
  \/ handleRemoveAddon
  \/ handleInstanceNameChange
  \/ handleAddonConfigChange

SpecAddons == InitAddons /\ [][NextAddons]_vars

\* ------------------------------------------------------------------- claims
Range(s) == {s[n] : n \in DOMAIN s}

\* the call was issued in this run
Issued(call) == call \in Range(calls)

\* the call was issued in this run and the client method threw / returned
Threw(call) ==
  Issued(call) /\ call \in DOMAIN upstream /\ ClientThrows(upstream[call])

Returned(call) ==
  Issued(call) /\ call \in DOMAIN upstream /\ ~ClientThrows(upstream[call])

Data(call) == upstream[call].data

\* the applyMutation calls of this run
RunMutations == SelectSeq(sink, LAMBDA m : m.run = run)

\* the entities of an applyMutation argument, in order
EntitiesOf(mutation) ==
  [n \in 1..Len(mutation.entities) |-> mutation.entities[n].entity]

\* the set of entities this run committed
CommittedSet ==
  UNION {Range(EntitiesOf(RunMutations[n].mutation)) : n \in DOMAIN RunMutations}

OrgNamesOf(call) == {Data(call)[n].name : n \in DOMAIN Data(call)}

\* C1: when getAllOrganizations succeeds, whatever per-scope fetches fail, a
\* finished run has issued the fetches of every scope (environments,
\* dataplanes, projects and component types of every organization, the
\* components of every returned project, the detail of every returned Service
\* component, the schema of every listed component type) and has called
\* applyMutation exactly once.
C1_SiblingScopesFetchedAndCommitOnce ==
  (pc = "done" /\ Returned(OrgsCall)) =>
    /\ Len(RunMutations) = 1
    /\ \A o \in OrgNamesOf(OrgsCall) :
         /\ Issued(EnvsCall(o))
         /\ Issued(DataplanesCall(o))
         /\ Issued(ProjectsCall(o))
         /\ Issued(ListCtdsCall(o))
         /\ Returned(ProjectsCall(o)) =>
              \A p \in Range(Data(ProjectsCall(o))) :
                /\ Issued(ComponentsCall(o, p.name))
                /\ Returned(ComponentsCall(o, p.name)) =>
                     \A c \in Range(Data(ComponentsCall(o, p.name))) :
                       c.type = "Service" =>
                         Issued(ComponentCall(o, p.name, c.name))
         /\ Returned(ListCtdsCall(o)) =>
              \A t \in Range(Data(ListCtdsCall(o))) :
                Issued(SchemaCall(o, t.name))

\* C1 witness: a finished run over two organizations in which the project
\* list of org1 and the environments of org2 failed, the components of
\* org2/proj1 were still fetched, a schema fetch failed, and the commit was made
C1_Witness ==
  /\ pc = "done"
  /\ Len(organizations) = 2
  /\ Threw(ProjectsCall("org1"))
  /\ Threw(EnvsCall("org2"))
  /\ Returned(ComponentsCall("org2", "proj1"))
  /\ Threw(SchemaCall("org1", "ctd1"))
  /\ Returned(SchemaCall("org2", "ctd1"))
  /\ Len(RunMutations) = 1

C3_ServiceFallbackToBasicEntity ==
  (pc = "done" /\ Returned(OrgsCall)) =>
    LET Listed == CommittedSet IN
    \A call \in Range(calls) :
      (call.op = "getComponent" /\ Threw(call)) =>
        /\ \E c \in Range(Data(ComponentsCall(call.org, call.project))) :
             /\ c.name = call.name
             /\ translateComponentToEntity(c, call.org, call.project, <<>>)
                  \in Listed
        /\ ~\E e \in Listed :
              /\ e.kind = "API" /\ e.component = call.name
              /\ e.organization = call.org /\ e.project = call.project

\* C3 witness: the detail fetch of org1/proj1/comp1 failed and that of
\* org1/proj2/comp1 returned an endpoint, so the committed list holds the basic
\* entity of the first and an API entity of the second
C3_Witness ==
  /\ pc = "done"
  /\ Threw(ComponentCall("org1", "proj1", "comp1"))
  /\ translateComponentToEntity(ServiceComponent, "org1", "proj1", <<>>)
       \in CommittedSet
  /\ \E e \in CommittedSet :
       e.kind = "API" /\ e.organization = "org1" /\ e.project = "proj2"

\* the component types of organization o whose schema fetch succeeded, in list
\* order
FetchedCtds(o) ==
  SelectSeq(Data(ListCtdsCall(o)), LAMBDA t : Returned(SchemaCall(o, t.name)))

\* the Template entities accumulated for organization o
TemplatesOf(o) ==
  SelectSeq(allEntities, LAMBDA e : e.kind = "Template" /\ e.organization = o)

C5_OrganizationsFailureEndsRun ==
  (pc = "done" /\ Threw(OrgsCall)) =>
    /\ calls = <<OrgsCall>>
    /\ RunMutations = <<>>
    /\ logs.error = 1
    /\ status = "failed"

\* C5 witness: a finished run whose organizations call got a success=false
\* envelope
C5_Witness ==
  /\ pc = "done"
  /\ Issued(OrgsCall)
  /\ upstream[OrgsCall] = Unsuccessful
  /\ status = "failed"

\* C6: when applyMutation rejects, the run has failed and logged an error, and
\* that call, which carried the whole accumulated list, is the only
\* applyMutation call of the run.
C6_CommitFailureIsFinal ==
  (pc = "done" /\ \E n \in DOMAIN RunMutations : RunMutations[n].outcome = "rejected") =>
    /\ status = "failed"
    /\ logs.error = 1
    /\ Len(RunMutations) = 1
    /\ EntitiesOf(RunMutations[1].mutation) = allEntities

\* C6 witness: a finished run whose commit of a non-empty list was rejected
C6_Witness ==
  /\ pc = "done"
  /\ Len(RunMutations) = 1
  /\ RunMutations[1].outcome = "rejected"
  /\ Len(allEntities) > 2

\* C7: every mutation the catalog connection receives is of type 'full' and
\* pairs every entity with the location key
\* 'provider:OpenChoreoEntityProvider'; a run makes at most one, and it carries
\* the complete accumulated list.
C7_OneFullMutationWithProviderKey ==
  /\ \A m \in Range(sink) :
       /\ m.mutation.type = "full"
       /\ \A x \in Range(m.mutation.entities) :
            x.locationKey = "provider:OpenChoreoEntityProvider"
  /\ Len(RunMutations) <= 1
  /\ pc \in {"orgs", "envs", "dataplanes", "projects", "components",
             "component", "ctds", "schemas", "commit"} => RunMutations = <<>>
  /\ (pc = "done" /\ RunMutations # <<>>) =>
       EntitiesOf(RunMutations[1].mutation) = allEntities

\* C7 witness: a committed list with entities of two organizations
C7_Witness ==
  /\ pc = "done"
  /\ status = "committed"
  /\ \E x, y \in Range(sink[1].mutation.entities) :
       x.entity.organization = "org1" /\ y.entity.organization = "org2"

\* the identity of an entity
Key(e) == <<e.kind, e.namespace, e.name>>

\* the applyMutation argument the run left in the sink, as a list of entities
\* (empty when the run committed nothing)
Committed ==
  IF RunMutations = <<>> THEN <<>> ELSE EntitiesOf(RunMutations[1].mutation)

\* C8: no two entities of a committed list share (kind, namespace, name), for
\* upstream data whose names are unique within their parent scope only.
C8_CommittedIdentitiesUnique ==
  pc = "done" =>
    LET list == Committed IN
    \A m, n \in DOMAIN list : m # n => Key(list[m]) # Key(list[n])

\* C9: a committed list holds at most one Template entity of a given name: of
\* two component types with the same derived template name only the later
\* one's Template is left.
C9_OneTemplatePerName ==
  pc = "done" =>
    LET list == Committed IN
    \A m, n \in DOMAIN list :
      (m < n /\ list[m].kind = "Template" /\ list[n].kind = "Template")
        => list[m].name # list[n].name

\* a list of entities as a catalog keyed by identity sees it: the last entity
\* of each identity
Keyed(list) ==
  [key \in {Key(list[n]) : n \in DOMAIN list} |->
     list[CHOOSE n \in DOMAIN list :
            /\ Key(list[n]) = key
            /\ \A m \in DOMAIN list : m > n => Key(list[m]) # key]]

\* C10: all runs against the same upstream data hand applyMutation entity
\* lists that are equal as sets and equal under (kind, namespace, name)-keyed
\* comparison, whatever the order in which the schema fetches settle.
C10_RunsCommitEqualEntitySets ==
  \A a, b \in Range(sink) :
    /\ Range(EntitiesOf(a.mutation)) = Range(EntitiesOf(b.mutation))
    /\ Keyed(EntitiesOf(a.mutation)) = Keyed(EntitiesOf(b.mutation))

\* C10 witness: two runs have committed; org1 had a failing dataplane fetch,
\* a project with an enriched Service component, and two schema fetches of
\* which one failed; the lists hold Templates of the same name from two
\* organizations
C10_Witness ==
  /\ pc = "done"
  /\ Len(sink) >= 2
  /\ sink[1].run = 1 /\ sink[2].run = 2
  /\ Threw(DataplanesCall("org1"))
  /\ Returned(ComponentCall("org1", "proj1", "comp1"))
  /\ Threw(SchemaCall("org1", "ctd2"))
  /\ Len(TemplatesOf("org1")) = 1
  /\ Len(TemplatesOf("org2")) = 1

\* the schema fetches of the fan-out that have not settled
InFlightSchemaCalls ==
  {SchemaCall(OrgName, ctdItems[n].name) :
     n \in {m \in DOMAIN pending : ~pending[m].settled}}

\* C11: within one run no upstream call is issued twice: the calls of the run
\* are pairwise different, so a fetch that failed is not issued again either.
C11_EveryFetchIssuedOnce ==
  /\ Cardinality(Range(calls)) = Len(calls)
  /\ \A n \in DOMAIN calls :
       (calls[n] \in DOMAIN upstream /\ ClientThrows(upstream[calls[n]])) =>
         \A m \in (n + 1)..Len(calls) : calls[m] # calls[n]

\* C11 witness: a finished run in which a project list, a component list, a
\* Service detail and a schema fetch failed and later scopes were still fetched
C11_Witness ==
  /\ pc = "done"
  /\ status = "committed"
  /\ Threw(ProjectsCall("org1"))
  /\ Threw(ComponentsCall("org2", "proj1"))
  /\ Threw(ComponentCall("org2", "proj2", "comp1"))
  /\ Threw(SchemaCall("org1", "ctd2"))
  /\ Returned(SchemaCall("org2", "ctd2"))

\* the Templates of organization o in the order of its component-type list
TemplatesInListOrder(o) ==
  LET fetched == SelectSeq(Data(ListCtdsCall(o)),
                           LAMBDA t : Returned(SchemaCall(o, t.name)))
  IN [n \in 1..Len(fetched) |->
        convertCtdToTemplateEntity(
          getCTDWithSchema(fetched[n], upstream[SchemaCall(o, fetched[n].name)]),
          o)]

\* C12: while run() awaits the schema fetches of an organization the
\* accumulation list changes only in the step taken when all of them have
\* settled, and that step appends the organization's Templates in the order of
\* the component-type list.
C12_TemplatesAppendedAfterFanOut ==
  [][pc = "schemas" =>
       \/ allEntities' = allEntities
       \/ /\ AllSettled(pending)
          /\ allEntities' = allEntities \o TemplatesInListOrder(OrgName)]_vars

\* C12 witness: the schema fetch of the second list item has fulfilled while
\* that of the first is still in flight, and the list holds no Template of the
\* organization
C12_Witness ==
  /\ pc = "schemas"
  /\ Len(pending) = 2
  /\ ~pending[1].settled
  /\ pending[2].settled /\ pending[2].result # <<>>
  /\ allEntities # <<>>
  /\ ~\E n \in DOMAIN allEntities :
        allEntities[n].kind = "Template" /\ allEntities[n].organization = OrgName

\* C13: every call is issued after the call for its parent scope returned the
\* scope it is for, the organizations call is the first one, and the only calls
\* issued and not settled are schema fetches of the organization whose fan-out
\* run() is awaiting.
C13_FetchesFollowHierarchy ==
  /\ \A n \in DOMAIN calls :
       LET c == calls[n]
           After(parent) == /\ \E m \in 1..(n - 1) : calls[m] = parent
                            /\ parent \in DOMAIN upstream
                            /\ ~ClientThrows(upstream[parent])
       IN CASE c.op = "getAllOrganizations" -> n = 1
            [] c.op \in {"getAllEnvironments", "getAllDataplanes",
                         "getAllProjects", "listCTDs"} ->
                 After(OrgsCall) /\ c.org \in OrgNamesOf(OrgsCall)
            [] c.op = "getAllComponents" ->
                 /\ After(ProjectsCall(c.org))
                 /\ \E p \in Range(Data(ProjectsCall(c.org))) : p.name = c.project
            [] c.op = "getComponent" ->
                 /\ After(ComponentsCall(c.org, c.project))
                 /\ \E x \in Range(Data(ComponentsCall(c.org, c.project))) :
                      x.name = c.name /\ x.type = "Service"
            [] c.op = "getCTDSchema" ->
                 /\ After(ListCtdsCall(c.org))
                 /\ \E t \in Range(Data(ListCtdsCall(c.org))) : t.name = c.name
  /\ \A c \in Range(calls) :
       c \notin DOMAIN upstream =>
         pc = "schemas" /\ c \in InFlightSchemaCalls
  /\ pc # "schemas" => InFlightSchemaCalls = {}

\* C13 witness: a finished run that went down to the Service detail of a
\* project of org2 and to the schemas of both organizations
C13_Witness ==
  /\ pc = "done"
  /\ Returned(ComponentCall("org2", "proj2", "comp1"))
  /\ Returned(ComponentCall("org1", "proj1", "comp1"))
  /\ Returned(SchemaCall("org1", "ctd1"))
  /\ Returned(SchemaCall("org2", "ctd2"))
  /\ Threw(EnvsCall("org1"))

\* C14: a run that has started ends; when it has ended it has called
\* applyMutation exactly once, or not at all and then logged an error; and
\* after the applyMutation call the run issues no further upstream call.
C14_EveryRunTerminates ==
  /\ (pc \notin {"idle", "done"}) ~> (pc = "done")
  /\ [](pc = "done" =>
          \/ Len(RunMutations) = 1
          \/ Len(RunMutations) = 0 /\ logs.error > 0 /\ status = "failed")
  /\ [][(Len(RunMutations) > 0 /\ run' = run) => calls' = calls]_vars

\* C14 witness: the second run has ended with its one applyMutation call after
\* the first run ended with a rejected one
C14_Witness ==
  /\ pc = "done"
  /\ run = 2
  /\ Len(sink) = 2
  /\ sink[1].outcome = "rejected"
  /\ Len(RunMutations) = 1
  /\ RunMutations[1].outcome = "resolved"
  /\ Threw(SchemaCall("org1", "ctd2"))

\* --- the conversion
Converted == convertResult # <<>>
Source == convertArgs.componentType
SourceSchema == Source.spec.inputParametersSchema
Result == convertResult[1]
Parameters == Result.spec.parameters

\* the parameter schema declares at least one property
HasProperties ==
  Has(SourceSchema, "properties") /\ Len(SourceSchema.properties) >= 1

HasWorkflows == Len(Source.metadata.allowedWorkflows) >= 1

\* the keys of an object, in order
Keys(entries) == [n \in DOMAIN entries |-> entries[n].key]

\* the sections with the given title
Titled(title) == SelectSeq(Parameters, LAMBDA section : section.title = title)

\* the section converted from the parameter schema
Configuration == Parameters[2]

\* C15: the Template's tag list holds no token twice and no token that is
\* empty or consists of white space only.
C15_TagsUniqueAndNonBlank ==
  Converted =>
    LET tags == Result.metadata.tags
    IN /\ \A m, n \in DOMAIN tags : m # n => tags[m] # tags[n]
       /\ \A n \in DOMAIN tags :
            \E c \in 1..Len(tags[n]) : CharAt(tags[n], c) \notin {" ", "\t", "\n"}

\* C16: the section titles are, in this order, 'Component Metadata', then
\* '<display name> Configuration' iff the parameter schema has a property,
\* then 'CI Setup' iff there is an allowed workflow, then 'Addons'; so there
\* are two sections when neither condition holds and each condition adds one.
C16_SectionsInOrder ==
  Converted =>
    LET titles == [n \in DOMAIN Parameters |-> Parameters[n].title]
        displayName == IF Source.metadata.displayName # ""
                       THEN Source.metadata.displayName
                       ELSE formatTitle(Source.metadata.name)
    IN /\ titles = <<"Component Metadata">>
                     \o (IF HasProperties
                         THEN <<displayName \o " Configuration">> ELSE <<>>)
                     \o (IF HasWorkflows THEN <<"CI Setup">> ELSE <<>>)
                     \o <<"Addons">>
       /\ (Source.metadata.name = "web-service"
             /\ Source.metadata.displayName = "" /\ HasProperties)
            => titles[2] = "Web Service Configuration"
       /\ Len(titles) = 2 + (IF HasProperties THEN 1 ELSE 0)
                          + (IF HasWorkflows THEN 1 ELSE 0)

\* C16 witness: a component type with a display name, two parameters and two
\* workflows was converted into four sections
C16_Witness ==
  /\ Converted
  /\ Source.metadata.displayName = "Web API"
  /\ HasProperties
  /\ Len(SourceSchema.properties) = 2
  /\ Len(Source.metadata.allowedWorkflows) = 2
  /\ Len(Parameters) = 4
  /\ Parameters[2].title = "Web API Configuration"

\* C17: with an allowed workflow there is one CI Setup section; it requires
\* useBuiltInCI, and its dependency on useBuiltInCI has a true branch with
\* exactly workflow_name (enum = the allowed workflows, in their order) and
\* workflow_parameters, both required, and a false branch with
\* external_ci_note alone.
C17_CISetupBranches ==
  (Converted /\ HasWorkflows) =>
    /\ Len(Titled("CI Setup")) = 1
    /\ LET section == Titled("CI Setup")[1]
           whenTrue == section.dependencies[1].value.allOf[1]
           whenFalse == section.dependencies[1].value.allOf[2]
       IN /\ section.required = <<"useBuiltInCI">>
          /\ Keys(section.properties) = <<"useBuiltInCI">>
          /\ section.properties[1].value.type = "boolean"
          /\ Keys(section.dependencies) = <<"useBuiltInCI">>
          /\ Len(section.dependencies[1].value.allOf) = 2
          /\ whenTrue.if.properties = <<Entry("useBuiltInCI", [const |-> TRUE])>>
          /\ Keys(whenTrue.then.properties)
               = <<"workflow_name", "workflow_parameters">>
          /\ whenTrue.then.properties[1].value.enum
               = Source.metadata.allowedWorkflows
          /\ whenTrue.then.required = <<"workflow_name", "workflow_parameters">>
          /\ whenFalse.if.properties = <<Entry("useBuiltInCI", [const |-> FALSE])>>
          /\ Keys(whenFalse.then.properties) = <<"external_ci_note">>
          /\ ~Has(whenFalse.then, "required")

\* C17 witness: a component type that allows buildpack and docker, in this
\* order, was converted
C17_Witness ==
  /\ Converted
  /\ Source.metadata.allowedWorkflows = <<"buildpack", "docker">>
  /\ Len(Titled("CI Setup")) = 1
  /\ Parameters[Len(Parameters) - 1].title = "CI Setup"

\* C18: a schema-form entry of `dependencies` is converted into an entry with
\* an allOf as long as the source's allOf when the source has one, and of
\* length 1 when it has none; an array-form entry is copied unchanged.
C18_DependenciesNotDoubleWrapped ==
  (Converted /\ HasProperties /\ Has(SourceSchema, "dependencies")) =>
    \A n \in DOMAIN SourceSchema.dependencies :
      LET entry == SourceSchema.dependencies[n]
          out == SelectSeq(Configuration.dependencies,
                           LAMBDA e : e.key = entry.key)
      IN IsBoolean(entry.value)
           \/ /\ Len(out) = 1
              /\ IF IsArray(entry.value) THEN out[1].value = entry.value
                 ELSE /\ Has(out[1].value, "allOf")
                      /\ Len(out[1].value.allOf) =
                           IF Has(entry.value, "allOf")
                           THEN Len(entry.value.allOf) ELSE 1

\* C18 witness: a schema whose dependency on p has an allOf of two
\* conditionals, whose dependency on q is a single conditional and whose
\* dependency on r is array-form was converted
C18_Witness ==
  /\ Converted
  /\ Has(SourceSchema, "dependencies")
  /\ Has(SourceSchema.dependencies[1].value, "allOf")
  /\ Len(SourceSchema.dependencies[1].value.allOf) = 2
  /\ ~IsBoolean(SourceSchema.dependencies[1].value.allOf[1])
  /\ Has(SourceSchema.dependencies[2].value, "if")
  /\ ~Has(SourceSchema.dependencies[2].value, "allOf")
  /\ IsArray(SourceSchema.dependencies[3].value)
  /\ Len(Configuration.dependencies) = 3
  /\ Len(Configuration.dependencies[1].value.allOf) = 2
  /\ Len(Configuration.dependencies[2].value.allOf) = 1
  /\ Configuration.dependencies[3].value = JsArray(<<"p">>)

\* a boolean schema stands in the tree as an entry of properties or
\* dependencies, as an item, as a then/else branch or in an allOf list
RECURSIVE HoldsBooleanSchema(_)
HoldsBooleanSchema(def) ==
  IF IsBoolean(def) THEN TRUE
  ELSE IF IsArray(def) THEN FALSE
  ELSE
    \/ Has(def, "properties")
         /\ \E n \in DOMAIN def.properties :
              HoldsBooleanSchema(def.properties[n].value)
    \/ Has(def, "dependencies")
         /\ \E n \in DOMAIN def.dependencies :
              HoldsBooleanSchema(def.dependencies[n].value)
    \/ Has(def, "items")
         /\ IF IsArray(def.items)
            THEN \E n \in DOMAIN def.items.array :
                   HoldsBooleanSchema(def.items.array[n])
            ELSE HoldsBooleanSchema(def.items)
    \/ Has(def, "then") /\ HoldsBooleanSchema(def.then)
    \/ Has(def, "else") /\ HoldsBooleanSchema(def.else)
    \/ Has(def, "allOf")
         /\ \E n \in DOMAIN def.allOf : HoldsBooleanSchema(def.allOf[n])

\* C19: the section converted from the parameter schema holds no boolean
\* schema, wherever the source holds one.
C19_BooleanSchemasNeverCopied ==
  (Converted /\ HasProperties) =>
    ~HoldsBooleanSchema([properties |-> Configuration.properties,
                         dependencies |-> Configuration.dependencies])

\* the leaves of a schema tree with their paths: a property adds its key to
\* the path, a single item schema "[]", the n-th tuple item "[n]"
RECURSIVE LeafPaths(_, _)
LeafPaths(def, path) ==
  IF IsBoolean(def) THEN {}
  ELSE IF Has(def, "properties")
  THEN UNION {LeafPaths(def.properties[n].value,
                        Append(path, def.properties[n].key)) :
                n \in DOMAIN def.properties}
  ELSE IF Has(def, "items")
  THEN IF IsArray(def.items)
       THEN UNION {LeafPaths(def.items.array[n],
                             Append(path, "[" \o ToString(n) \o "]")) :
                     n \in DOMAIN def.items.array}
       ELSE LeafPaths(def.items, Append(path, "[]"))
  ELSE {<<path, def>>}

LeafFields ==
  {"type", "description", "default", "enum", "minimum", "maximum",
   "multipleOf", "pattern", "minLength", "maxLength", "format", "minItems",
   "maxItems", "uniqueItems"}

\* C20: every leaf of the parameter schema has exactly one leaf at its path
\* in the converted section, and that leaf has each of these fields the
\* source leaf declares, with the declared value.
C20_LeavesCopiedLosslessly ==
  (Converted /\ HasProperties) =>
    LET converted == LeafPaths([properties |-> Configuration.properties], <<>>)
    IN \A source \in LeafPaths(SourceSchema, <<>>) :
         LET found == {leaf \in converted : leaf[1] = source[1]}
         IN /\ Cardinality(found) = 1
            /\ \A leaf \in found :
                 \A f \in DOMAIN source[2] \cap LeafFields :
                   Has(leaf[2], f) /\ leaf[2][f] = source[2][f]

\* --- flattenSchema
Flattened == flattenResult # <<>>
FlatFields == flattenResult[1]

\* The leaf properties of a schema, depth first in declaration order: a
\* property that is a schema and not an object with nested properties.  Each
\* with its key, the keys of its ancestors, and whether its key is listed in
\* the required array of the schema declaring it or of an enclosing schema.
RECURSIVE DeclaredLeaves(_, _, _)
DeclaredLeaves(schema, ancestors, parentRequired) ==
  LET own == IF Has(schema, "required") THEN schema.required ELSE <<>>
      leavesOf(entry) ==
        IF IsBoolean(entry.value) THEN <<>>
        ELSE IF Has(entry.value, "type") /\ entry.value.type = "object"
                  /\ Has(entry.value, "properties")
        THEN DeclaredLeaves(entry.value, Append(ancestors, entry.key),
                            parentRequired \cup Range(own))
        ELSE <<[key |-> entry.key, ancestors |-> ancestors,
                required |-> entry.key \in Range(own) \cup parentRequired]>>
      RECURSIVE all(_)
      all(n) == IF n > Len(schema.properties) THEN <<>>
                ELSE leavesOf(schema.properties[n]) \o all(n + 1)
  IN IF Has(schema, "properties") THEN all(1) ELSE <<>>

\* no property key of the schema, at any depth, holds a dot
RECURSIVE DotFree(_)
DotFree(schema) ==
  Has(schema, "properties") =>
    \A n \in DOMAIN schema.properties :
      /\ Len(split(schema.properties[n].key, ".")) = 1
      /\ ~IsBoolean(schema.properties[n].value)
           => DotFree(schema.properties[n].value)

C22_RequiredFromOwnOrParentList ==
  Flattened =>
    LET leaves == DeclaredLeaves(flattenArgs, <<>>, {})
    IN \A n \in DOMAIN leaves :
         n \in DOMAIN FlatFields => FlatFields[n].required = leaves[n].required

\* --- titles of the converted properties
\* a title derived from a property key: the parts between hyphens and dots,
\* each with its first character in upper case, joined by spaces
DerivedTitle(key) == formatTitle(MapChars(key, ".", "-"))

PrimitiveTypes == {"string", "number", "integer", "boolean"}

\* C23: a primitive leaf of the parameter schema that declares no title has,
\* in the converted section, the title derived from its property key; a
\* declared title is copied unchanged.
C23_LeafTitleDeclaredOrDerived ==
  (Converted /\ HasProperties) =>
    \A n \in DOMAIN SourceSchema.properties :
      LET key == SourceSchema.properties[n].key
          source == SourceSchema.properties[n].value
      IN (~IsBoolean(source) /\ Has(source, "type")
            /\ source.type \in PrimitiveTypes) =>
           \E m \in DOMAIN Configuration.properties :
             LET copy == Configuration.properties[m]
             IN /\ copy.key = key
                /\ Has(copy.value, "title")
                /\ copy.value.title = IF Has(source, "title") THEN source.title
                                      ELSE DerivedTitle(key)

\* --- API entities
\* the interface kind of an endpoint type
InterfaceKind ==
  [REST |-> "openapi", HTTP |-> "openapi", GraphQL |-> "graphql",
   gRPC |-> "grpc", Websocket |-> "asyncapi", TCP |-> "openapi",
   UDP |-> "openapi"]

ApiEntities == apiResult[1].entities

\* C24: every API entity of a service component has the spec.type the table
\* gives for its endpoint's type, openapi for a type the table does not
\* name, and the name '<component-name>-<endpoint-name>'; there is one per
\* endpoint.
C24_ApiTypeFromTableAndName ==
  (apiResult # <<>> /\ ~apiResult[1].threw) =>
    /\ Len(ApiEntities) = Len(apiArgs.endpoints)
    /\ \A n \in DOMAIN ApiEntities :
         LET endpoint == apiArgs.endpoints[n]
         IN /\ ApiEntities[n].kind = "API"
            /\ ApiEntities[n].type =
                 IF endpoint.type \in DOMAIN InterfaceKind
                 THEN InterfaceKind[endpoint.type] ELSE "openapi"
            /\ ApiEntities[n].name
                 = join(<<apiArgs.name, endpoint.name>>, "-")

\* the API entities of a Websocket endpoint and of an endpoint of a type the
\* table does not name
C24_Witness ==
  /\ apiResult # <<>> /\ ~apiResult[1].threw
  /\ Len(ApiEntities) = 2
  /\ apiArgs.endpoints[1].type = "Websocket" /\ ApiEntities[1].type = "asyncapi"
  /\ apiArgs.endpoints[2].type = "SOAP" /\ ApiEntities[2].type = "openapi"
  /\ ApiEntities[2].name = "comp1-ep2"

\* --- steps
Steps == Result.spec.steps

\* C25: the template has exactly one step, with the action
\* openchoreo:component:create, whose input maps orgName, projectName,
\* componentName, displayName and description to the tokens of the identity
\* parameters, componentType to the component type's name and
\* componentTypeParameters to the token of the whole parameters.
C25_OneStepWithIdentityAndParameters ==
  Converted =>
    /\ Len(Steps) = 1
    /\ Steps[1].action = "openchoreo:component:create"
    /\ Get(Steps[1].input, "orgName") = "${{ parameters.organization_name }}"
    /\ Get(Steps[1].input, "projectName") = "${{ parameters.project_name }}"
    /\ Get(Steps[1].input, "componentName") = "${{ parameters.component_name }}"
    /\ Get(Steps[1].input, "displayName") = "${{ parameters.displayName }}"
    /\ Get(Steps[1].input, "description") = "${{ parameters.description }}"
    /\ Get(Steps[1].input, "componentType") = Source.metadata.name
    /\ Get(Steps[1].input, "componentTypeParameters") = "${{ parameters }}"

\* --- the Service path
\* the upstream component an entity was translated from
ComponentOf(e) == <<e.organization, e.project, e.component>>

\* C26: the committed list holds at most one Component entity per upstream
\* component, whichever step of the Service path fails.
C26_OneComponentEntityPerComponent ==
  pc = "done" =>
    LET list == Committed IN
    \A m, n \in DOMAIN list :
      (m # n /\ list[m].kind = "Component" /\ list[n].kind = "Component")
        => ComponentOf(list[m]) # ComponentOf(list[n])

\* the names of the entities of a kind in a list
NamesOf(list, kind) ==
  {list[n].name : n \in {x \in DOMAIN list : list[x].kind = kind}}

\* C27: in every committed list each System's domain names a Domain of the
\* list, each Component's and API's system names a System of the list, each
\* name in a Component's providesApis is the name of an API of the list, and
\* each API is named in the providesApis of a Component entity of its
\* component.
C27_ReferencesResolveInList ==
  pc = "done" =>
    LET list == Committed IN
    \A n \in DOMAIN list :
      /\ list[n].kind = "System" => list[n].domain \in NamesOf(list, "Domain")
      /\ list[n].kind \in {"Component", "API"}
           => list[n].system \in NamesOf(list, "System")
      /\ list[n].kind = "Component"
           => Range(list[n].providesApis) \subseteq NamesOf(list, "API")
      /\ list[n].kind = "API"
           => \E x \in DOMAIN list :
                /\ list[x].kind = "Component"
                /\ ComponentOf(list[x]) = ComponentOf(list[n])
                /\ list[n].name \in Range(list[x].providesApis)

\* --- parameters end to end
Handed == resource # <<>>

\* C28: every parameter the schema declares is forwarded end to end: the
\* step input maps its key to '${{ parameters.<key> }}', the fixed step
\* inputs stay what they are for a schema without parameters, and the
\* applied resource has the parameter's value under its key in
\* spec.parameters.
C28_ParametersForwardedByKey ==
  Handed =>
    LET template == Result
        input == Steps[1].input
        fixed == generateSteps([Source EXCEPT
                                  !.spec.inputParametersSchema = [type |-> "object"]])[1].input
    IN /\ \A n \in DOMAIN SourceSchema.properties :
            LET key == SourceSchema.properties[n].key
            IN /\ Get(input, key) = ParameterToken(key)
               /\ Get(resource[1].spec.parameters, key) = FormValue(template, key)
       /\ \A n \in DOMAIN fixed :
            fixed[n].key \in {"orgName", "projectName", "componentName",
                              "displayName", "description", "componentType",
                              "component_type_workload_type"}
              => Get(input, fixed[n].key) = fixed[n].value

\* --- BuildWorkflowParameters
\* the effect of the current selection has run and no fetch is in flight
AllFetchesSettled ==
  \A n \in DOMAIN effects : effects[n].state \notin {"scheduled", "inflight"}

\* the effect of a later selection has run after the n-th
Replaced(n) ==
  \E later \in DOMAIN effects :
    later > n /\ effects[later].state # "scheduled"

C30_PendingAddKeepsChanges ==
  [][(adding # <<>> /\ adding' = <<>> /\ formData' # formData)
       => /\ Len(formData') = Len(formData) + 1
          /\ SubSeq(formData', 1, Len(formData)) = formData]_vars

====
